---- MODULE Spec2Model ----
(***************************************************************************)
(* Model of the auth server bootstrap (auth.Init) of teleport:             *)
(* lock-guarded first start detection, apply/prune reconciliation of       *)
(* cert authorities, reverse tunnels and OIDC connectors, CA ensure,       *)
(* legacy migration and host identity materialisation.                     *)
(* One action per backend or filesystem call of Init, so that a failure    *)
(* can be injected at every call and invocations can interleave there.     *)
(***************************************************************************)
EXTENDS Integers, Sequences, FiniteSets, TLC

\* ----------------------------------------------------------------- bounds
MaxKeys == 4        \* number of identities a caller of the identity store has issued
MaxCalls == 2       \* number of Init invocations one process makes

Procs == {1, 2}                 \* auth server replicas calling Init
Clusters == {"d1", "d2"}        \* cluster (domain) names
ClusterOrder == <<"d1", "d2">>  \* backend listing order of cluster names
TunnelNames == {"A", "B"}
TunnelOrder == <<"A", "B">>
ConnectorNames == {"c1", "c2"}
ConnectorOrder == <<"c1", "c2">>
UserNames == {"u1"}
UserOrder == <<"u1">>

Absent == [kind |-> "absent"]   \* no record under that key / no file
Nil == [kind |-> "nil"]         \* Go nil

\* ------------------------------------------------------------ key material
GenKey(n) == [src |-> "gen", n |-> n]
CfgKey == [src |-> "cfg", n |-> 0]     \* key pair supplied in configuration
OldKey == [src |-> "old", n |-> 0]     \* key pair stored before the model starts

\* ---------------------------------------------------------- services types
HostCA == "host"
UserCA == "user"
CATypes == {HostCA, UserCA}
V1 == "V1"
V2 == "V2"

CertAuthID(domain, type) == <<domain, type>>
CAIds == Clusters \X CATypes

\* a stored or configured cert authority
CertAuthority(cluster, type, keys, version) ==
    [kind |-> "ca", ClusterName |-> cluster, Type |-> type, keys |-> keys, version |-> version]

GetID(ca) == CertAuthID(ca.ClusterName, ca.Type)

\* services.GetCertAuthorityMarshaler().GenerateCertAuthority: the record in
\* current format
GenerateCertAuthority(ca) == [ca EXCEPT !.version = V2]

RoleNameForCertAuthority(cluster) == "ca:" \o cluster
RoleNameForUser(name) == "user:" \o name

\* services.ConvertV1CertAuthority: current-format CA and companion role
ConvertV1CertAuthority(raw) ==
    [ca |-> [raw EXCEPT !.version = V2],
     role |-> [name |-> RoleNameForCertAuthority(raw.ClusterName), spec |-> "ca-role"]]

\* services.RoleForUser followed by role.SetLogins(raw.AllowedLogins)
RoleForUser(name, raw) ==
    [name |-> RoleNameForUser(name), spec |-> raw.logins]

RoleNames == {"r"} \cup {RoleNameForCertAuthority(c) : c \in Clusters}
                   \cup {RoleNameForUser(u) : u \in UserNames}

\* ------------------------------------------------------------ configuration
\* InitConfig values the model draws from
DataDirs == {"", "/var/lib/teleport"}

ConfigRole(name, spec) == [name |-> name, spec |-> spec]
ReverseTunnel(cluster, addr) == [ClusterName |-> cluster, addr |-> addr]
OIDCConnector(name, url) == [Name |-> name, url |-> url]

RolesLists == {<< >>, <<ConfigRole("r", "s1")>>}
AuthoritiesLists(domain) ==
    {<< >>} \cup
    {<<CertAuthority(c, HostCA, CfgKey, V2)>> : c \in Clusters} \cup
    {<<CertAuthority(c, UserCA, CfgKey, V1), CertAuthority(c, HostCA, CfgKey, V2)>> :
        c \in Clusters \ {domain}}
TunnelsLists == {<<ReverseTunnel("A", "a1")>>}
ConnectorsLists == {<< >>, <<OIDCConnector("c1", "u1")>>}
AuthPreferences == {"local"}
U2Fs == {Nil, [kind |-> "u2f", appID |-> "app1"]}

InitConfig(dataDir, hostUUID, domain, roles, auths, tunnels, conns, pref, u2f) ==
    [DataDir |-> dataDir, HostUUID |-> hostUUID, NodeName |-> "node",
     DomainName |-> domain, Roles |-> roles, Authorities |-> auths,
     ReverseTunnels |-> tunnels, OIDCConnectors |-> conns,
     AuthPreference |-> pref, U2F |-> u2f]

\* configurations that pass the precondition: a configuration file with or
\* without the roles and connectors sections, with or without U2F
GoodConfigsOf(d) ==
    {cfg \in {InitConfig("/var/lib/teleport", "h1", d, r, a, t, c, pr, u) :
                 r \in RolesLists, a \in AuthoritiesLists(d),
                 t \in TunnelsLists, c \in ConnectorsLists, pr \in AuthPreferences, u \in U2Fs} :
        (cfg.Roles = << >>) = (cfg.OIDCConnectors = << >>)}
GoodConfigs(domains) == UNION {GoodConfigsOf(d) : d \in domains}
\* configurations that violate it
BadConfigs(domains) ==
    {InitConfig(dd, h, d, << >>, << >>, <<ReverseTunnel("A", "a1")>>, << >>, "local", Nil) :
        <<dd, h>> \in {<<"", "h1">>, <<"/var/lib/teleport", "">>}, d \in domains}
Configs(domains) == GoodConfigs(domains) \cup BadConfigs(domains)
\* the configurations of replicas that run side by side
FewConfigs(domains) ==
    {cfg \in GoodConfigs(domains) :
        /\ cfg.Roles # << >> /\ cfg.OIDCConnectors # << >> /\ cfg.U2F # Nil
        /\ Len(cfg.Authorities) <= 1}

\* the same without an authorities section
PlainConfigs(domains) == {cfg \in FewConfigs(domains) : cfg.Authorities = << >>}

\* the configurations of servers of different clusters that run side by side:
\* the domain and a reverse tunnel, no other section
BareConfigs(domains) ==
    {cfg \in GoodConfigs(domains) :
        /\ cfg.Roles = << >> /\ cfg.OIDCConnectors = << >> /\ cfg.U2F = Nil
        /\ cfg.Authorities = << >>}

\* ------------------------------------------------------------------ backend
\* The backend is a keyed store per resource kind plus named locks.
StoredRole(spec) == [kind |-> "role", spec |-> spec]
StoredTunnel(t) == [kind |-> "tunnel", addr |-> t.addr]
StoredConnector(c) == [kind |-> "connector", url |-> c.url]
StoredUser(version, roles, logins) ==
    [kind |-> "user", version |-> version, roles |-> roles, logins |-> logins]

EmptyBackend ==
    [cas |-> [id \in CAIds |-> Absent],
     roles |-> [n \in RoleNames |-> Absent],
     tunnels |-> [n \in TunnelNames |-> Absent],
     connectors |-> [n \in ConnectorNames |-> Absent],
     users |-> [n \in UserNames |-> Absent],
     authPreference |-> Absent,
     u2f |-> Absent,
     namespaces |-> {},
     locks |-> {}]

UpsertRole(b, role) == [b EXCEPT !.roles[role.name] = StoredRole(role.spec)]
UpsertCertAuthority(b, ca) == [b EXCEPT !.cas[GetID(ca)] = ca]
DeleteCertAuthority(b, id) == [b EXCEPT !.cas[id] = Absent]
UpsertReverseTunnel(b, t) == [b EXCEPT !.tunnels[t.ClusterName] = StoredTunnel(t)]
DeleteReverseTunnel(b, name) == [b EXCEPT !.tunnels[name] = Absent]
UpsertOIDCConnector(b, c) == [b EXCEPT !.connectors[c.Name] = StoredConnector(c)]
DeleteOIDCConnector(b, name) == [b EXCEPT !.connectors[name] = Absent]
UpsertUser(b, name, user) == [b EXCEPT !.users[name] = user]
SetClusterAuthPreference(b, pref) == [b EXCEPT !.authPreference = [kind |-> "pref", value |-> pref]]
SetUniversalSecondFactor(b, u) == [b EXCEPT !.u2f = u]
UpsertNamespace(b, ns) == [b EXCEPT !.namespaces = @ \cup {ns}]
DefaultNamespace == "default"     \* defaults.Namespace

\* listings come back in key order
SeqOf(order, S) == SelectSeq(order, LAMBDA x : x \in S)
GetCertAuthorities(b, type) ==
    SeqOf(ClusterOrder, {c \in Clusters : b.cas[CertAuthID(c, type)] # Absent})
GetReverseTunnels(b) == SeqOf(TunnelOrder, {n \in TunnelNames : b.tunnels[n] # Absent})
GetOIDCConnectors(b) == SeqOf(ConnectorOrder, {n \in ConnectorNames : b.connectors[n] # Absent})
GetUsers(b) == SeqOf(UserOrder, {n \in UserNames : b.users[n] # Absent})

\* named lock: free iff nobody holds it; it is released by its name, whoever
\* asks (the holder is kept for the record)
LockFree(b, name) == \A p \in Procs : <<name, p>> \notin b.locks
AcquireLock(b, name, p) == [b EXCEPT !.locks = @ \cup {<<name, p>>}]
ReleaseLock(b, name) == [b EXCEPT !.locks = {l \in @ : l[1] # name}]

\* --------------------------------------------------------------- filesystem
\* strings.ToLower on role names
ToLower(role) ==
    CASE role = "Admin" -> "admin"
      [] role = "Node" -> "node"
      [] OTHER -> role
RoleAdmin == "Admin"      \* teleport.RoleAdmin

\* both files under the name of the key file
keysPath_SameFile(dataDir, id) ==
    [key |-> dataDir \o "/" \o ToLower(id.Role) \o ".key",
     cert |-> dataDir \o "/" \o ToLower(id.Role) \o ".key"]

\* keysPath: <dataDir>/<lowercased role>.key and .cert
keysPath(dataDir, id) ==
    [key |-> dataDir \o "/" \o ToLower(id.Role) \o ".key",
     cert |-> dataDir \o "/" \o ToLower(id.Role) \o ".cert"]

IdentityID(role, hostUUID, nodeName) == [Role |-> role, HostUUID |-> hostUUID, NodeName |-> nodeName]

\* an equality that takes the node name into account
Equals_WithNodeName(id, other) ==
    id.Role = other.Role /\ id.HostUUID = other.HostUUID /\ id.NodeName = other.NodeName

\* IdentityID.Equals, line 485: role and host UUID
Equals(id, other) == id.Role = other.Role /\ id.HostUUID = other.HostUUID

\* roles a host certificate can carry, and the role extension strings of the model
Roles == {"Admin", "Node"}
RoleStrings == {"", "Admin", "Node", "Admin,Node", "Bogus"}

Paths == UNION {{keysPath(d, IdentityID(r, "h1", "node")).key,
                 keysPath(d, IdentityID(r, "h1", "node")).cert} : d \in DataDirs \ {""}, r \in Roles}

\* teleport.Roles.String: the role names joined by commas
RolesString(roles) ==
    IF roles = << >> THEN ""
    ELSE IF Len(roles) = 1 THEN roles[1]
    ELSE roles[1] \o "," \o roles[2]

\* teleport.ParseRoles: the comma separated names, each a known role
ParseRoles(str) ==
    CASE str = "Admin" -> [kind |-> "roles", roles |-> <<"Admin">>]
      [] str = "Node" -> [kind |-> "roles", roles |-> <<"Node">>]
      [] str = "Admin,Node" -> [kind |-> "roles", roles |-> <<"Admin", "Node">>]
      [] OTHER -> [kind |-> "err", err |-> "BadParameter"]

\* file contents. A key file: no bytes, bytes that are no private key, or a
\* private key. A certificate file: no bytes, bytes that do not parse, a
\* bare public key, or a certificate for a public key with its valid
\* principals and its permission extensions (name/value pairs)
EmptyBytes == [kind |-> "empty"]
Garbage == [kind |-> "garbage"]
KeyFile(k) == [kind |-> "key", keys |-> k]
PublicKey(k) == [kind |-> "pubkey", keys |-> k]
Certificate(principals, extensions, k) ==
    [kind |-> "cert", principals |-> principals, extensions |-> extensions, keys |-> k]

CertExtensionRole == "x-teleport-role"            \* utils.CertExtensionRole
CertExtensionAuthority == "x-teleport-authority"  \* utils.CertExtensionAuthority

\* cert.Permissions.Extensions[name]: the value, "" when there is none
Extension(extensions, name) ==
    IF \E e \in extensions : e[1] = name
    THEN (CHOOSE e \in extensions : e[1] = name)[2]
    ELSE ""

\* a host certificate with the role and authority extensions
CertFile(principals, roles, authority, k) ==
    Certificate(principals,
                {<<CertExtensionRole, RolesString(roles)>>, <<CertExtensionAuthority, authority>>}, k)

\* AuthServer.GenerateServerKeys: key pair with a certificate for the host
\* UUID, carrying the role and the authority domain as extensions
GenerateServerKeys(hostUUID, nodeName, roles, domain, k) ==
    [Key |-> KeyFile(k), Cert |-> CertFile(<<hostUUID>>, roles, domain, k)]

BadParameter == [kind |-> "err", err |-> "BadParameter"]

\* a check of the first principal alone
validPrincipals_First(principals) == Len(principals) >= 1 /\ principals[1] # ""

\* lines 525-532: at least one valid principal, and none of them empty
validPrincipals(principals) ==
    /\ Len(principals) >= 1
    /\ \A j \in 1..Len(principals) : principals[j] # ""

\* ReadIdentityFromKeyPair: the validation of a key/certificate pair, check
\* by check in the order of the code
ReadIdentityFromKeyPair(keyBytes, certBytes) ==
    IF keyBytes.kind = "empty" THEN BadParameter                    \* line 495
    ELSE IF certBytes.kind = "empty" THEN BadParameter              \* line 499
    ELSE IF certBytes.kind = "garbage" THEN BadParameter            \* line 503
    ELSE IF certBytes.kind # "cert" THEN BadParameter               \* line 508
    ELSE IF keyBytes.kind # "key" THEN BadParameter                 \* line 513
    ELSE IF certBytes.keys # keyBytes.keys THEN BadParameter        \* line 519
    ELSE IF ~validPrincipals(certBytes.principals) THEN BadParameter  \* lines 525-532
    ELSE IF Cardinality(certBytes.extensions) = 0 THEN BadParameter \* line 535
    ELSE IF Extension(certBytes.extensions, CertExtensionRole) = ""
         THEN BadParameter                                          \* line 539
    ELSE LET roles == ParseRoles(Extension(certBytes.extensions, CertExtensionRole))
             authorityDomain == Extension(certBytes.extensions, CertExtensionAuthority)
         IN IF roles.kind = "err" THEN roles                        \* line 543
            ELSE IF Len(roles.roles) # 1 THEN [kind |-> "err", err |-> "Error"]   \* line 547
            ELSE IF authorityDomain = "" THEN BadParameter          \* line 553
            ELSE [kind |-> "identity",
                  ID |-> [Role |-> roles.roles[1], HostUUID |-> certBytes.principals[1],
                          NodeName |-> ""],
                  AuthorityDomain |-> authorityDomain,
                  KeyBytes |-> keyBytes, CertBytes |-> certBytes]

\* ---------------------------------------------------------------- variables
VARIABLES
    backend,   \* the shared backend store (cfg.Backend and the services on it)
    disk,      \* disk[p][path]: the files in the data directory of replica p
    keygen,    \* number of key pairs generated so far (asrv.GenerateKeyPair)
    inv,       \* inv[p]: parameters, locals and position of the Init call of replica p
    hist,      \* hist[p]: what the call observed and did (history, not program state)
    lockLog,   \* the calls in the order in which they obtained the lock (history)
    env        \* the replicas that run and the cluster domains they are configured for

vars == <<backend, disk, keygen, inv, hist, lockLog, env>>

\* return values of Init
Success(identity) == [kind |-> "ok", identity |-> identity]
Error(err) == [kind |-> "err", err |-> err]
NoReturn == [kind |-> "none"]

IdleInv ==
    [pc |-> "idle", cfg |-> Nil, seedConfig |-> FALSE, firstStart |-> FALSE,
     keepMap |-> {}, list |-> << >>, i |-> 1, tmp |-> Nil, ret |-> NoReturn]

\* the skip decided without looking at the first start
skipConfig_FirstStart(p) == inv[p].seedConfig /\ inv[p].firstStart

\* the apply skipped on every start but the first
skipConfig_NotFirstStart(p) == ~inv[p].firstStart

\* line 137: skipConfig := seedConfig && !firstStart
skipConfig(p) == inv[p].seedConfig /\ ~inv[p].firstStart

\* history of the current call of a replica: the backend and disk it found
\* when it got the lock, what it wrote and deleted and at which position, the failures it
\* dropped, the order of its operations; of the calls before: the state the first one found and how
\* the previous one ended
NewHist ==
    [calls |-> 0, start |-> Nil, startDisk |-> Nil, origin |-> Nil, prev |-> Nil,
     wrote |-> {}, deleted |-> {}, generated |-> {}, hostKeys |-> Nil, failed |-> FALSE, ignored |-> FALSE,
     determined |-> FALSE, locked |-> FALSE, order |-> << >>]

\* the positions at which the call wrote, deleted or looked up its own CA,
\* in the order in which it came to them
Then(order, pc) == IF order # << >> /\ order[Len(order)] = pc THEN order ELSE Append(order, pc)

\* ------------------------------------------------------------- local steps
cfgOf(p) == inv[p].cfg
hostCAId(p) == CertAuthID(cfgOf(p).DomainName, HostCA)
userCAId(p) == CertAuthID(cfgOf(p).DomainName, UserCA)

\* one keep map for the three kinds
KeepMapAt_Shared(p, pc) == inv[p].keepMap

\* continue at pc with the loop index reset
\* keepMap = make(map[string]int, 0) on lines 263 and 295
KeepMapAt(p, pc) == IF pc \in {"UpsertTunnels", "UpsertConnectors"} THEN {} ELSE inv[p].keepMap
Goto(p, pc) ==
    inv' = [inv EXCEPT ![p].pc = pc, ![p].i = 1, ![p].list = << >>, ![p].tmp = Nil,
                       ![p].keepMap = KeepMapAt(p, pc)]
\* an error return that skips the deferred call
Fail_NoRelease(p, err) ==
    inv' = [inv EXCEPT ![p].pc = "idle", ![p].ret = Error(err),
                       ![p].i = 1, ![p].list = << >>, ![p].tmp = Nil, ![p].keepMap = {}]

\* a failed call: Init returns the error; the deferred ReleaseLock runs
Fail(p, err) ==
    inv' = [inv EXCEPT ![p].pc = "ReleaseLock", ![p].ret = Error(err),
                       ![p].i = 1, ![p].list = << >>, ![p].tmp = Nil, ![p].keepMap = {}]
Wrote(p, key) == hist' = [hist EXCEPT ![p].wrote = @ \cup {<<inv[p].pc, key>>},
                                     ![p].order = Then(@, inv[p].pc)]
Deleted(p, key) == hist' = [hist EXCEPT ![p].deleted = @ \cup {<<inv[p].pc, key>>},
                                       ![p].order = Then(@, inv[p].pc)]

\* a replica is started with one configuration file (seed_config is part of
\* it) and restarted with the same one
StartConfigs(p) ==
    IF hist[p].calls > 0 THEN {inv[p].cfg}
    ELSE IF env.configs = "all" THEN Configs(env.domains)
    ELSE IF env.configs = "few" THEN FewConfigs(env.domains)
    ELSE IF env.configs = "plain" THEN PlainConfigs(env.domains)
    ELSE BareConfigs(env.domains)
StartSeeds(p) == IF hist[p].calls = 0 THEN BOOLEAN ELSE {inv[p].seedConfig}

\* the configuration checks without the one of the host UUID
checkConfig_NoHostUUID(cfg) ==
    IF cfg.DataDir = "" THEN Error("BadParameter") ELSE NoReturn

\* lines 113-118: the configuration checks
checkConfig(cfg) ==
    IF cfg.DataDir = "" THEN Error("BadParameter")
    ELSE IF cfg.HostUUID = "" THEN Error("BadParameter")
    ELSE NoReturn

\* Init entry: the configuration checks, before any lock or I/O
Call(p) ==
    /\ inv[p].pc = "idle"
    /\ p \in env.procs
    /\ hist[p].calls < MaxCalls
    /\ hist[p].calls = 0 \/ env.restarts
    /\ \E cfg \in StartConfigs(p), seedConfig \in StartSeeds(p) :
        /\ hist' = [hist EXCEPT ![p] =
                [NewHist EXCEPT !.calls = hist[p].calls + 1,
                                !.origin = hist[p].origin,
                                !.prev = IF hist[p].calls = 0 THEN Nil
                                         ELSE [ret |-> inv[p].ret, failed |-> hist[p].failed,
                                               ignored |-> hist[p].ignored]]]
        /\ inv' = [inv EXCEPT ![p] =
                [IdleInv EXCEPT !.cfg = cfg, !.seedConfig = seedConfig,
                                !.ret = checkConfig(cfg),
                                !.pc = IF checkConfig(cfg) = NoReturn THEN "AcquireLock" ELSE "idle"]]
    /\ UNCHANGED <<backend, disk, keygen, lockLog, env>>

\* a lock taken without waiting for its holder
DoAcquireLock_NoWait(p) ==
    /\ inv[p].pc = "AcquireLock"
    /\ backend' = AcquireLock(backend, cfgOf(p).DomainName, p)
    /\ Goto(p, "isFirstStart")
    /\ hist' = [hist EXCEPT ![p].locked = TRUE,
                            ![p].start = backend, ![p].startDisk = disk[p],
                            ![p].origin = IF @ = Nil THEN [backend |-> backend, disk |-> disk[p]]
                                          ELSE @]
    /\ lockLog' = Append(lockLog, <<p, hist[p].calls>>)
    /\ UNCHANGED <<disk, keygen, env>>

\* cfg.Backend.AcquireLock(cfg.DomainName, 30s): blocks while the lock is held
DoAcquireLock(p) ==
    /\ inv[p].pc = "AcquireLock"
    /\ LockFree(backend, cfgOf(p).DomainName)
    /\ backend' = AcquireLock(backend, cfgOf(p).DomainName, p)
    /\ Goto(p, "isFirstStart")
    /\ hist' = [hist EXCEPT ![p].locked = TRUE,
                            ![p].start = backend, ![p].startDisk = disk[p],
                            ![p].origin = IF @ = Nil THEN [backend |-> backend, disk |-> disk[p]]
                                          ELSE @]
    /\ lockLog' = Append(lockLog, <<p, hist[p].calls>>)
    /\ UNCHANGED <<disk, keygen, env>>

\* the release deferred before the outcome of the acquisition is looked at
AcquireLockFail_Deferred(p) ==
    /\ inv[p].pc = "AcquireLock"
    /\ inv' = [inv EXCEPT ![p].pc = "ReleaseLock", ![p].ret = Error("lock")]
    /\ hist' = [hist EXCEPT ![p].failed = TRUE]
    /\ UNCHANGED <<backend, disk, keygen, lockLog, env>>

\* the lock was not obtained (timeout or backend failure): no deferred release
AcquireLockFail(p) ==
    /\ inv[p].pc = "AcquireLock"
    /\ inv' = [inv EXCEPT ![p].pc = "idle", ![p].ret = Error("lock")]
    /\ hist' = [hist EXCEPT ![p].failed = TRUE]
    /\ UNCHANGED <<backend, disk, keygen, lockLog, env>>

\* first start decided on the user CA instead of the host CA
isFirstStart_UserCA(b, cfg) == b.cas[CertAuthID(cfg.DomainName, UserCA)] = Absent

\* isFirstStart: true iff the lookup of the host CA of the domain reports
\* not-found
isFirstStart(b, cfg) == b.cas[CertAuthID(cfg.DomainName, HostCA)] = Absent

\* the authentication preference written on every start
authPreferenceDue_Always(firstStart) == TRUE

\* line 141: if firstStart, the authentication preference (and U2F) is set
authPreferenceDue(firstStart) == firstStart

\* line 130: firstStart, err := isFirstStart(asrv, cfg)
DoIsFirstStart(p) ==
    /\ inv[p].pc = "isFirstStart"
    /\ LET firstStart == isFirstStart(backend, cfgOf(p))
       IN inv' = [inv EXCEPT ![p].firstStart = firstStart,
                             ![p].pc = IF authPreferenceDue(firstStart)
                                       THEN "SetClusterAuthPreference" ELSE "UpsertRoles"]
    /\ hist' = [hist EXCEPT ![p].determined = TRUE]
    /\ UNCHANGED <<backend, disk, keygen, lockLog, env>>

isFirstStartFail(p) ==
    /\ inv[p].pc = "isFirstStart"
    /\ Fail(p, "backend")
    /\ hist' = [hist EXCEPT ![p].failed = TRUE]
    /\ UNCHANGED <<backend, disk, keygen, lockLog, env>>

\* first start: asrv.SetClusterAuthPreference(cfg.AuthPreference)
DoSetClusterAuthPreference(p) ==
    /\ inv[p].pc = "SetClusterAuthPreference"
    /\ backend' = SetClusterAuthPreference(backend, cfgOf(p).AuthPreference)
    /\ Goto(p, IF cfgOf(p).U2F # Nil THEN "SetU2FFirstStart" ELSE "UpsertRoles")
    /\ Wrote(p, <<"authPreference">>)
    /\ UNCHANGED <<disk, keygen, lockLog, env>>

\* first start: asrv.SetUniversalSecondFactor(cfg.U2F)
SetU2FFirstStart(p) ==
    /\ inv[p].pc = "SetU2FFirstStart"
    /\ backend' = SetUniversalSecondFactor(backend, cfgOf(p).U2F)
    /\ Goto(p, "UpsertRoles")
    /\ Wrote(p, <<"u2f">>)
    /\ UNCHANGED <<disk, keygen, lockLog, env>>

\* a backend call between lines 143 and 364 returns an error other than
\* not-found and Init returns it wrapped
BackendFailPcs ==
    {"SetClusterAuthPreference", "SetU2FFirstStart", "UpsertRoles", "UpsertAuthorities",
     "ListHostCAs", "ListUserCAs", "PruneCAs", "GetHostCA", "UpsertHostCA", "GetUserCA",
     "UpsertUserCA", "UpsertTunnels", "ListTunnels", "PruneTunnels", "UpsertConnectors",
     "PruneConnectors", "SetU2F", "UpsertNamespace", "MigrateUserRole", "MigrateUserUpsert",
     "MigrateCAGetRole", "MigrateCARole", "MigrateCAUpsert"}

\* the second factor settings pushed on first start only
u2fDue_FirstStart(p) == cfgOf(p).U2F # Nil /\ inv[p].firstStart

\* line 323: if cfg.U2F != nil
u2fDue(p) == cfgOf(p).U2F # Nil

\* a prune that is suppressed only where the apply is
pruneEnabled_UnlessSkip(p) == ~skipConfig(p)

\* lines 182, 276 and 308: if !seedConfig, the prune phases run
pruneEnabled(p) == ~inv[p].seedConfig

\* the configured lists as the apply phases see them: empty under skipConfig
RolesToApply(p) == IF skipConfig(p) THEN << >> ELSE cfgOf(p).Roles
AuthoritiesToApply(p) == IF skipConfig(p) THEN << >> ELSE cfgOf(p).Authorities
TunnelsToApply(p) == IF skipConfig(p) THEN << >> ELSE cfgOf(p).ReverseTunnels
ConnectorsToApply(p) == IF skipConfig(p) THEN << >> ELSE cfgOf(p).OIDCConnectors

\* the roles reconciled like the other kinds: after the loop the stored roles
\* that are not configured are deleted
UpsertRoles_Pruned(p) ==
    /\ inv[p].pc = "UpsertRoles"
    /\ IF inv[p].i <= Len(RolesToApply(p))
       THEN LET role == RolesToApply(p)[inv[p].i]
            IN /\ backend' = UpsertRole(backend, role)
               /\ inv' = [inv EXCEPT ![p].i = @ + 1]
               /\ Wrote(p, <<"role", role.name>>)
       ELSE /\ inv' = [inv EXCEPT ![p].pc = "UpsertAuthorities", ![p].i = 1]
            /\ backend' = IF pruneEnabled(p)
                          THEN [backend EXCEPT !.roles = [n \in RoleNames |->
                                    IF n \in {RolesToApply(p)[j].name : j \in 1..Len(RolesToApply(p))}
                                    THEN backend.roles[n] ELSE Absent]]
                          ELSE backend
            /\ UNCHANGED hist
    /\ UNCHANGED <<disk, keygen, lockLog, env>>

\* lines 159-165: asrv.UpsertRole for every configured role
UpsertRoles(p) ==
    /\ inv[p].pc = "UpsertRoles"
    /\ IF inv[p].i <= Len(RolesToApply(p))
       THEN LET role == RolesToApply(p)[inv[p].i]
            IN /\ backend' = UpsertRole(backend, role)
               /\ inv' = [inv EXCEPT ![p].i = @ + 1]
               /\ Wrote(p, <<"role", role.name>>)
       ELSE /\ inv' = [inv EXCEPT ![p].pc = "UpsertAuthorities", ![p].i = 1]
            /\ UNCHANGED <<backend, hist>>
    /\ UNCHANGED <<disk, keygen, lockLog, env>>

\* lines 167-178: GenerateCertAuthority and Trust.UpsertCertAuthority for
\* every configured authority; its cluster name goes to the keep map
UpsertAuthorities(p) ==
    /\ inv[p].pc = "UpsertAuthorities"
    /\ IF inv[p].i <= Len(AuthoritiesToApply(p))
       THEN LET ca == GenerateCertAuthority(AuthoritiesToApply(p)[inv[p].i])
            IN /\ backend' = UpsertCertAuthority(backend, ca)
               /\ inv' = [inv EXCEPT ![p].i = @ + 1, ![p].keepMap = @ \cup {ca.ClusterName}]
               /\ hist' = [hist EXCEPT ![p].wrote = @ \cup {<<inv[p].pc, <<"ca", GetID(ca)>>>>},
                                       ![p].order = Then(@, inv[p].pc),
                                       ![p].hostKeys = IF GetID(ca) = hostCAId(p) THEN ca.keys ELSE @]
       ELSE /\ inv' = [inv EXCEPT ![p].pc = IF pruneEnabled(p) THEN "ListHostCAs" ELSE "GetHostCA",
                                  ![p].i = 1]
            /\ UNCHANGED <<backend, hist>>
    /\ UNCHANGED <<disk, keygen, lockLog, env>>

\* line 183: asrv.Trust.GetCertAuthorities(services.HostCA, false)
ListHostCAs(p) ==
    /\ inv[p].pc = "ListHostCAs"
    /\ inv' = [inv EXCEPT ![p].pc = "ListUserCAs",
                          ![p].list = [j \in 1..Len(GetCertAuthorities(backend, HostCA)) |->
                                          CertAuthID(GetCertAuthorities(backend, HostCA)[j], HostCA)]]
    /\ UNCHANGED <<backend, disk, keygen, hist, lockLog, env>>

\* line 187: asrv.Trust.GetCertAuthorities(services.UserCA, false), appended
ListUserCAs(p) ==
    /\ inv[p].pc = "ListUserCAs"
    /\ inv' = [inv EXCEPT ![p].pc = "PruneCAs", ![p].i = 1,
                          ![p].list = @ \o [j \in 1..Len(GetCertAuthorities(backend, UserCA)) |->
                                          CertAuthID(GetCertAuthorities(backend, UserCA)[j], UserCA)]]
    /\ UNCHANGED <<backend, disk, keygen, hist, lockLog, env>>

\* a prune without the exemption of the own domain
PruneCA_NotKept(p, id) == id[1] \notin inv[p].keepMap

\* a prune that spares the host CA of the own domain only
PruneCA_OwnHostOnly(p, id) == id # hostCAId(p) /\ id[1] \notin inv[p].keepMap

\* line 193: a listed CA is pruned iff it is not of the own domain and its
\* cluster name is not in the keep map
PruneCA(p, id) == id[1] # cfgOf(p).DomainName /\ id[1] \notin inv[p].keepMap

\* lines 191-199: delete the listed CAs that are not kept
PruneCAs(p) ==
    /\ inv[p].pc = "PruneCAs"
    /\ IF inv[p].i <= Len(inv[p].list)
       THEN LET id == inv[p].list[inv[p].i]
            IN /\ inv' = [inv EXCEPT ![p].i = @ + 1]
               /\ IF PruneCA(p, id)
                  THEN backend' = DeleteCertAuthority(backend, id) /\ Deleted(p, <<"ca", id>>)
                  ELSE UNCHANGED <<backend, hist>>
       ELSE Goto(p, "GetHostCA") /\ UNCHANGED <<backend, hist>>
    /\ UNCHANGED <<disk, keygen, lockLog, env>>

\* an ensure step that generates whatever the lookup says
caNotFound_Always(b, domain, type) == TRUE

\* both lookups made for the host CA
caNotFound_HostTwice(b, domain, type) == b.cas[CertAuthID(domain, HostCA)] = Absent

\* lines 204-207 and 234-237: the lookup of the own CA reports not-found
caNotFound(b, domain, type) == b.cas[CertAuthID(domain, type)] = Absent

\* an ensure step that is over once the host CA is found
GetOwnCA_HostOnly(p, type) ==
    /\ inv[p].pc = (IF type = HostCA THEN "GetHostCA" ELSE "GetUserCA")
    /\ IF ~caNotFound(backend, cfgOf(p).DomainName, type)
       THEN Goto(p, "UpsertTunnels")
       ELSE Goto(p, IF type = HostCA THEN "UpsertHostCA" ELSE "UpsertUserCA")
    /\ hist' = [hist EXCEPT ![p].order = Then(@, inv[p].pc)]
    /\ UNCHANGED <<backend, disk, keygen, lockLog, env>>

\* lines 204 and 234: asrv.GetCertAuthority for the own domain; a record
\* that exists is left alone, not-found leads to the generation
GetOwnCA(p, type) ==
    /\ inv[p].pc = (IF type = HostCA THEN "GetHostCA" ELSE "GetUserCA")
    /\ IF ~caNotFound(backend, cfgOf(p).DomainName, type)
       THEN Goto(p, IF type = HostCA THEN "GetUserCA" ELSE "UpsertTunnels")
       ELSE Goto(p, IF type = HostCA THEN "UpsertHostCA" ELSE "UpsertUserCA")
    /\ hist' = [hist EXCEPT ![p].order = Then(@, inv[p].pc)]
    /\ UNCHANGED <<backend, disk, keygen, lockLog, env>>

\* lines 209-229 and 240-260: asrv.GenerateKeyPair and the upsert of the new
\* CertAuthorityV2 of the own domain
UpsertOwnCA(p, type) ==
    /\ inv[p].pc = (IF type = HostCA THEN "UpsertHostCA" ELSE "UpsertUserCA")
    /\ keygen' = keygen + 1
    /\ backend' = UpsertCertAuthority(backend,
                      CertAuthority(cfgOf(p).DomainName, type, GenKey(keygen + 1), V2))
    /\ Goto(p, IF type = HostCA THEN "GetUserCA" ELSE "UpsertTunnels")
    /\ hist' = [hist EXCEPT ![p].wrote = @ \cup {<<inv[p].pc, <<"ca", CertAuthID(cfgOf(p).DomainName, type)>>>>},
                            ![p].order = Then(@, inv[p].pc),
                            ![p].generated = @ \cup {CertAuthID(cfgOf(p).DomainName, type)},
                            ![p].hostKeys = IF type = HostCA THEN GenKey(keygen + 1) ELSE @]
    /\ UNCHANGED <<disk, lockLog, env>>

\* lines 264-272: asrv.UpsertReverseTunnel for every configured tunnel
UpsertTunnels(p) ==
    /\ inv[p].pc = "UpsertTunnels"
    /\ IF inv[p].i <= Len(TunnelsToApply(p))
       THEN LET tunnel == TunnelsToApply(p)[inv[p].i]
            IN /\ backend' = UpsertReverseTunnel(backend, tunnel)
               /\ inv' = [inv EXCEPT ![p].i = @ + 1, ![p].keepMap = @ \cup {tunnel.ClusterName}]
               /\ Wrote(p, <<"tunnel", tunnel.ClusterName>>)
       ELSE /\ Goto(p, IF pruneEnabled(p) THEN "ListTunnels" ELSE "UpsertConnectors")
            /\ UNCHANGED <<backend, hist>>
    /\ UNCHANGED <<disk, keygen, lockLog, env>>

\* line 277: asrv.GetReverseTunnels()
ListTunnels(p) ==
    /\ inv[p].pc = "ListTunnels"
    /\ inv' = [inv EXCEPT ![p].pc = "PruneTunnels", ![p].i = 1, ![p].list = GetReverseTunnels(backend)]
    /\ UNCHANGED <<backend, disk, keygen, hist, lockLog, env>>

\* a prune that deletes nothing
PruneTunnel_Never(p, name) == FALSE

\* lines 282-283: a listed tunnel is pruned iff it is not in the keep map
PruneTunnel(p, name) == name \notin inv[p].keepMap

\* lines 281-289: delete the listed tunnels that are not in the keep map
PruneTunnels(p) ==
    /\ inv[p].pc = "PruneTunnels"
    /\ IF inv[p].i <= Len(inv[p].list)
       THEN LET name == inv[p].list[inv[p].i]
            IN /\ inv' = [inv EXCEPT ![p].i = @ + 1]
               /\ IF PruneTunnel(p, name)
                  THEN backend' = DeleteReverseTunnel(backend, name) /\ Deleted(p, <<"tunnel", name>>)
                  ELSE UNCHANGED <<backend, hist>>
       ELSE Goto(p, "UpsertConnectors") /\ UNCHANGED <<backend, hist>>
    /\ UNCHANGED <<disk, keygen, lockLog, env>>

\* lines 296-305: asrv.UpsertOIDCConnector for every configured connector
UpsertConnectors(p) ==
    /\ inv[p].pc = "UpsertConnectors"
    /\ IF inv[p].i <= Len(ConnectorsToApply(p))
       THEN LET connector == ConnectorsToApply(p)[inv[p].i]
            IN /\ backend' = UpsertOIDCConnector(backend, connector)
               /\ inv' = [inv EXCEPT ![p].i = @ + 1, ![p].keepMap = @ \cup {connector.Name}]
               /\ Wrote(p, <<"connector", connector.Name>>)
       ELSE /\ inv' = [inv EXCEPT ![p].i = 1,
                          ![p].pc = IF pruneEnabled(p) THEN "ListConnectors"
                                    ELSE IF u2fDue(p) THEN "SetU2F"
                                    ELSE "UpsertNamespace"]
            /\ UNCHANGED <<backend, hist>>
    /\ UNCHANGED <<disk, keygen, lockLog, env>>

\* line 309: connectors, _ := asrv.GetOIDCConnectors(false)
ListConnectors(p) ==
    /\ inv[p].pc = "ListConnectors"
    /\ inv' = [inv EXCEPT ![p].pc = "PruneConnectors", ![p].i = 1, ![p].list = GetOIDCConnectors(backend)]
    /\ UNCHANGED <<backend, disk, keygen, hist, lockLog, env>>

\* a failed listing of the connectors that ends Init like any other failure
ListConnectorsFail_Abort(p) ==
    /\ inv[p].pc = "ListConnectors"
    /\ Fail(p, "backend")
    /\ hist' = [hist EXCEPT ![p].failed = TRUE]
    /\ UNCHANGED <<backend, disk, keygen, lockLog, env>>

\* line 309 when the listing fails: the error is dropped, the list is nil
ListConnectorsFail(p) ==
    /\ inv[p].pc = "ListConnectors"
    /\ inv' = [inv EXCEPT ![p].pc = "PruneConnectors", ![p].i = 1, ![p].list = << >>]
    /\ hist' = [hist EXCEPT ![p].failed = TRUE, ![p].ignored = TRUE]
    /\ UNCHANGED <<backend, disk, keygen, lockLog, env>>

\* lines 311-312: a listed connector is pruned iff it is not in the keep map
PruneConnector(p, name) == name \notin inv[p].keepMap

\* lines 310-318: delete the listed connectors that are not in the keep map
PruneConnectors(p) ==
    /\ inv[p].pc = "PruneConnectors"
    /\ IF inv[p].i <= Len(inv[p].list)
       THEN LET name == inv[p].list[inv[p].i]
            IN /\ inv' = [inv EXCEPT ![p].i = @ + 1]
               /\ IF PruneConnector(p, name)
                  THEN backend' = DeleteOIDCConnector(backend, name) /\ Deleted(p, <<"connector", name>>)
                  ELSE UNCHANGED <<backend, hist>>
       ELSE Goto(p, IF u2fDue(p) THEN "SetU2F" ELSE "UpsertNamespace")
            /\ UNCHANGED <<backend, hist>>
    /\ UNCHANGED <<disk, keygen, lockLog, env>>

\* lines 323-328: asrv.SetUniversalSecondFactor(cfg.U2F) on every start
SetU2F(p) ==
    /\ inv[p].pc = "SetU2F"
    /\ backend' = SetUniversalSecondFactor(backend, cfgOf(p).U2F)
    /\ Goto(p, "UpsertNamespace")
    /\ Wrote(p, <<"u2f">>)
    /\ UNCHANGED <<disk, keygen, lockLog, env>>

\* line 331: asrv.UpsertNamespace(services.NewNamespace(defaults.Namespace))
DoUpsertNamespace(p) ==
    /\ inv[p].pc = "UpsertNamespace"
    /\ backend' = UpsertNamespace(backend, DefaultNamespace)
    /\ Goto(p, "ListUsers")
    /\ Wrote(p, <<"namespace", DefaultNamespace>>)
    /\ UNCHANGED <<disk, keygen, lockLog, env>>

\* line 337: users, err := asrv.GetUsers(); the listed users are a snapshot
ListUsers(p) ==
    /\ inv[p].pc = "ListUsers"
    /\ inv' = [inv EXCEPT ![p].pc = "MigrateUsers", ![p].i = 1,
                          ![p].list = [j \in 1..Len(GetUsers(backend)) |->
                                          [name |-> GetUsers(backend)[j],
                                           user |-> backend.users[GetUsers(backend)[j]]]]]
    /\ UNCHANGED <<backend, disk, keygen, hist, lockLog, env>>

\* line 337 when the listing fails: err is never looked at, users is nil
ListUsersFail(p) ==
    /\ inv[p].pc = "ListUsers"
    /\ inv' = [inv EXCEPT ![p].pc = "MigrateUsers", ![p].i = 1, ![p].list = << >>]
    /\ hist' = [hist EXCEPT ![p].failed = TRUE, ![p].ignored = TRUE]
    /\ UNCHANGED <<backend, disk, keygen, lockLog, env>>

\* a loop that does not move on from a user that needs no migration
MigrateUsers_Stay(p) ==
    /\ inv[p].pc = "MigrateUsers"
    /\ IF inv[p].i <= Len(inv[p].list)
       THEN IF inv[p].list[inv[p].i].user.version = V1
            THEN inv' = [inv EXCEPT ![p].pc = "MigrateUserRole"]
            ELSE UNCHANGED inv
       ELSE Goto(p, "ListCAs")
    /\ UNCHANGED <<backend, disk, keygen, hist, lockLog, env>>

\* lines 338-343, 355: a user that is not UserV1 is skipped
MigrateUsers(p) ==
    /\ inv[p].pc = "MigrateUsers"
    /\ IF inv[p].i <= Len(inv[p].list)
       THEN IF inv[p].list[inv[p].i].user.version = V1
            THEN inv' = [inv EXCEPT ![p].pc = "MigrateUserRole"]
            ELSE inv' = [inv EXCEPT ![p].i = @ + 1]
       ELSE Goto(p, "ListCAs")
    /\ UNCHANGED <<backend, disk, keygen, hist, lockLog, env>>

\* lines 345-350: the role of the legacy user, with its allowed logins
MigrateUserRole(p) ==
    /\ inv[p].pc = "MigrateUserRole"
    /\ LET item == inv[p].list[inv[p].i]
           role == RoleForUser(item.name, item.user)
       IN /\ backend' = UpsertRole(backend, role)
          /\ Wrote(p, <<"role", role.name>>)
    /\ inv' = [inv EXCEPT ![p].pc = "MigrateUserUpsert"]
    /\ UNCHANGED <<disk, keygen, lockLog, env>>

\* lines 351-354: user.AddRole(role.GetName()) and asrv.UpsertUser(user)
MigrateUserUpsert(p) ==
    /\ inv[p].pc = "MigrateUserUpsert"
    /\ LET item == inv[p].list[inv[p].i]
           role == RoleForUser(item.name, item.user)
       IN /\ backend' = UpsertUser(backend, item.name,
                            StoredUser(V2, item.user.roles \cup {role.name}, ""))
          /\ Wrote(p, <<"user", item.name>>)
    /\ inv' = [inv EXCEPT ![p].pc = "MigrateUsers", ![p].i = @ + 1]
    /\ UNCHANGED <<disk, keygen, lockLog, env>>

\* line 358: cas, err := asrv.GetCertAuthorities(services.UserCA, true)
ListCAs(p) ==
    /\ inv[p].pc = "ListCAs"
    /\ inv' = [inv EXCEPT ![p].pc = "MigrateCAs", ![p].i = 1,
                          ![p].list = [j \in 1..Len(GetCertAuthorities(backend, UserCA)) |->
                                backend.cas[CertAuthID(GetCertAuthorities(backend, UserCA)[j], UserCA)]]]
    /\ UNCHANGED <<backend, disk, keygen, hist, lockLog, env>>

\* line 358 when the listing fails: err is never looked at, cas is nil
ListCAsFail(p) ==
    /\ inv[p].pc = "ListCAs"
    /\ inv' = [inv EXCEPT ![p].pc = "MigrateCAs", ![p].i = 1, ![p].list = << >>]
    /\ hist' = [hist EXCEPT ![p].failed = TRUE, ![p].ignored = TRUE]
    /\ UNCHANGED <<backend, disk, keygen, lockLog, env>>

\* a migration that takes every record for a legacy one
isLegacyCA_Always(ca) == TRUE

\* lines 375-378: (in.GetRawObject()).(services.CertAuthorityV1)
isLegacyCA(ca) == ca.version = V1

\* lines 359-364 and 375-378: a CA that is not CertAuthorityV1 is skipped
MigrateCAs(p) ==
    /\ inv[p].pc = "MigrateCAs"
    /\ IF inv[p].i <= Len(inv[p].list)
       THEN IF isLegacyCA(inv[p].list[inv[p].i])
            THEN inv' = [inv EXCEPT ![p].pc = "MigrateCAGetRole"]
            ELSE inv' = [inv EXCEPT ![p].i = @ + 1]
       ELSE Goto(p, "pathExists")
    /\ UNCHANGED <<backend, disk, keygen, hist, lockLog, env>>

\* lines 379-385: asrv.GetRole of the companion role; when it exists the
\* migration of this CA is taken as done
MigrateCAGetRole(p) ==
    /\ inv[p].pc = "MigrateCAGetRole"
    /\ IF backend.roles[RoleNameForCertAuthority(inv[p].list[inv[p].i].ClusterName)] # Absent
       THEN inv' = [inv EXCEPT ![p].pc = "MigrateCAs", ![p].i = @ + 1]
       ELSE inv' = [inv EXCEPT ![p].pc = "MigrateCARole"]
    /\ UNCHANGED <<backend, disk, keygen, hist, lockLog, env>>

\* lines 386-391: ConvertV1CertAuthority and asrv.UpsertRole(role)
MigrateCARole(p) ==
    /\ inv[p].pc = "MigrateCARole"
    /\ LET conv == ConvertV1CertAuthority(inv[p].list[inv[p].i])
       IN /\ backend' = UpsertRole(backend, conv.role)
          /\ Wrote(p, <<"role", conv.role.name>>)
    /\ inv' = [inv EXCEPT ![p].pc = "MigrateCAUpsert"]
    /\ UNCHANGED <<disk, keygen, lockLog, env>>

\* lines 392-395: asrv.UpsertCertAuthority(ca, 0)
MigrateCAUpsert(p) ==
    /\ inv[p].pc = "MigrateCAUpsert"
    /\ LET conv == ConvertV1CertAuthority(inv[p].list[inv[p].i])
       IN /\ backend' = UpsertCertAuthority(backend, conv.ca)
          /\ Wrote(p, <<"ca", GetID(conv.ca)>>)
    /\ inv' = [inv EXCEPT ![p].pc = "MigrateCAs", ![p].i = @ + 1]
    /\ UNCHANGED <<disk, keygen, lockLog, env>>

\* ------------------------------------------------------------------ initKeys
idOf(p) == IdentityID(RoleAdmin, cfgOf(p).HostUUID, cfgOf(p).NodeName)
kp(p) == keysPath(cfgOf(p).DataDir, idOf(p)).key
cp(p) == keysPath(cfgOf(p).DataDir, idOf(p)).cert

\* pathExists: os.Stat reports whether the file is there
pathExists(d, path) == d[path] # Absent

\* an identity issued on every start, whatever is on disk
needKeys_Always(d, key, cert) == TRUE

\* line 433: if !keyExists || !certExists
needKeys(d, key, cert) == ~pathExists(d, key) \/ ~pathExists(d, cert)

\* lines 421-433: pathExists(kp) and pathExists(cp)
DoPathExists(p) ==
    /\ inv[p].pc = "pathExists"
    /\ inv' = [inv EXCEPT ![p].pc = IF needKeys(disk[p], kp(p), cp(p))
                                    THEN "GenerateServerKeys" ELSE "ReadIdentity"]
    /\ UNCHANGED <<backend, disk, keygen, hist, lockLog, env>>

\* lines 434-437: a.GenerateServerKeys signs with the host CA of the domain
DoGenerateServerKeys(p) ==
    /\ inv[p].pc = "GenerateServerKeys"
    /\ backend.cas[hostCAId(p)] # Absent
    /\ keygen' = keygen + 1
    /\ inv' = [inv EXCEPT ![p].pc = "WriteKey",
                          ![p].tmp = GenerateServerKeys(idOf(p).HostUUID, idOf(p).NodeName,
                                         <<idOf(p).Role>>, cfgOf(p).DomainName, GenKey(keygen + 1))]
    /\ UNCHANGED <<backend, disk, hist, lockLog, env>>

\* writeKeys, line 457: ioutil.WriteFile(kp, key, 0600)
WriteKey(p) ==
    /\ inv[p].pc = "WriteKey"
    /\ disk' = [disk EXCEPT ![p][kp(p)] = inv[p].tmp.Key]
    /\ inv' = [inv EXCEPT ![p].pc = "WriteCert"]
    /\ Wrote(p, <<"file", kp(p)>>)
    /\ UNCHANGED <<backend, keygen, lockLog, env>>

\* writeKeys, line 460: ioutil.WriteFile(cp, cert, 0600)
WriteCert(p) ==
    /\ inv[p].pc = "WriteCert"
    /\ disk' = [disk EXCEPT ![p][cp(p)] = inv[p].tmp.Cert]
    /\ inv' = [inv EXCEPT ![p].pc = "ReadIdentity", ![p].tmp = Nil]
    /\ Wrote(p, <<"file", cp(p)>>)
    /\ UNCHANGED <<backend, keygen, lockLog, env>>

\* ReadIdentity: both files are read and validated
ReadIdentity(d, dataDir, id) ==
    IF d[keysPath(dataDir, id).key] = Absent \/ d[keysPath(dataDir, id).cert] = Absent
    THEN Error("NotFound")
    ELSE ReadIdentityFromKeyPair(d[keysPath(dataDir, id).key], d[keysPath(dataDir, id).cert])

\* lines 444-448 and 366-371: the identity read back is what Init returns
DoReadIdentity(p) ==
    /\ inv[p].pc = "ReadIdentity"
    /\ LET i == ReadIdentity(disk[p], cfgOf(p).DataDir, idOf(p))
       IN inv' = [inv EXCEPT ![p].pc = "ReleaseLock", ![p].i = 1, ![p].list = << >>,
                             ![p].tmp = Nil, ![p].keepMap = {},
                             ![p].ret = IF i.kind = "identity" THEN Success(i) ELSE Error(i.err)]
    /\ UNCHANGED <<backend, disk, keygen, hist, lockLog, env>>

\* line 124: defer cfg.Backend.ReleaseLock(cfg.DomainName), then Init returns
DoReleaseLock(p) ==
    /\ inv[p].pc = "ReleaseLock"
    /\ backend' = ReleaseLock(backend, cfgOf(p).DomainName)
    /\ inv' = [inv EXCEPT ![p].pc = "idle"]
    /\ UNCHANGED <<disk, keygen, hist, lockLog, env>>

\* ----------------------------------------------------------------- failures
\* the call at the current position is about to be made (the position is
\* not one where the loop is over or the item needs no call)
Pending(p) ==
    CASE inv[p].pc = "UpsertRoles" -> inv[p].i <= Len(RolesToApply(p))
      [] inv[p].pc = "UpsertAuthorities" -> inv[p].i <= Len(AuthoritiesToApply(p))
      [] inv[p].pc = "UpsertTunnels" -> inv[p].i <= Len(TunnelsToApply(p))
      [] inv[p].pc = "UpsertConnectors" -> inv[p].i <= Len(ConnectorsToApply(p))
      [] inv[p].pc = "PruneCAs" ->
            inv[p].i <= Len(inv[p].list) /\ PruneCA(p, inv[p].list[inv[p].i])
      [] inv[p].pc = "PruneTunnels" ->
            inv[p].i <= Len(inv[p].list) /\ PruneTunnel(p, inv[p].list[inv[p].i])
      [] inv[p].pc = "PruneConnectors" ->
            inv[p].i <= Len(inv[p].list) /\ PruneConnector(p, inv[p].list[inv[p].i])
      [] OTHER -> TRUE

\* a backend call returns an error other than not-found: Init returns it
BackendFail(p) ==
    /\ inv[p].pc \in BackendFailPcs
    /\ Pending(p)
    /\ Fail(p, "backend")
    /\ hist' = [hist EXCEPT ![p].failed = TRUE]
    /\ UNCHANGED <<backend, disk, keygen, lockLog, env>>

\* os.Stat, ioutil.WriteFile or utils.ReadPath fails, or the key generation
\* or signing of GenerateServerKeys fails
InitKeysFail(p) ==
    /\ inv[p].pc \in {"pathExists", "GenerateServerKeys", "WriteKey", "WriteCert", "ReadIdentity"}
    /\ Fail(p, "io")
    /\ hist' = [hist EXCEPT ![p].failed = TRUE]
    /\ UNCHANGED <<backend, disk, keygen, lockLog, env>>

\* ------------------------------------------------------------ initial states
\* what the backend holds before the first Init: nothing, or the records of
\* an installation in the legacy format
LegacyCA(cluster, type) == CertAuthority(cluster, type, OldKey, V1)
CurrentCA(cluster, type) == CertAuthority(cluster, type, OldKey, V2)
\* the other resources: none, or some written through the live system
Populated ==
    [EmptyBackend EXCEPT !.roles["r"] = StoredRole("s2"),
                         !.tunnels["B"] = StoredTunnel(ReverseTunnel("B", "a1")),
                         !.connectors["c2"] = StoredConnector(OIDCConnector("c2", "u1")),
                         !.authPreference = [kind |-> "pref", value |-> "oidc"],
                         !.u2f = [kind |-> "u2f", appID |-> "app0"],
                         !.users["u1"] = StoredUser(V1, {}, "root")]
InitBackends ==
    {\* a fresh backend
     EmptyBackend,
     \* not yet initialised for d1, but holding resources and the CAs of d2
     [Populated EXCEPT !.cas = [id \in CAIds |->
                                    IF id = <<"d2", HostCA>> THEN CurrentCA(id[1], id[2])
                                    ELSE IF id = <<"d2", UserCA>> THEN LegacyCA(id[1], id[2])
                                    ELSE Absent]],
     \* initialised for d1
     [EmptyBackend EXCEPT !.cas = [id \in CAIds |-> IF id[1] = "d1" THEN CurrentCA(id[1], id[2])
                                                    ELSE Absent]],
     \* initialised for d1, holding resources and the user CA of d2
     [Populated EXCEPT !.cas = [id \in CAIds |-> IF id = <<"d2", HostCA>> THEN Absent
                                                 ELSE CurrentCA(id[1], id[2])]],
     \* a legacy installation of d1
     [EmptyBackend EXCEPT !.cas = [id \in CAIds |-> IF id[1] = "d1" THEN LegacyCA(id[1], id[2])
                                                    ELSE Absent]],
     \* a legacy installation of d1 that trusts d2
     [Populated EXCEPT !.cas = [id \in CAIds |-> IF id = <<"d2", HostCA>>
                                                 THEN CurrentCA(id[1], id[2])
                                                 ELSE LegacyCA(id[1], id[2])]]}

\* what the data directory holds before the first Init: nothing, an identity
\* issued to another host, a certificate without principals, or one of the
\* two files alone
EmptyDisk == [path \in Paths |-> Absent]
DiskWith(key, cert) ==
    [EmptyDisk EXCEPT ![keysPath("/var/lib/teleport", IdentityID(RoleAdmin, "", "")).key] = key,
                      ![keysPath("/var/lib/teleport", IdentityID(RoleAdmin, "", "")).cert] = cert]
InitDisks ==
    {EmptyDisk,
     DiskWith(KeyFile(OldKey), CertFile(<<"h2">>, <<RoleAdmin>>, "d1", OldKey)),
     DiskWith(KeyFile(OldKey), CertFile(<< >>, <<RoleAdmin>>, "d1", OldKey)),
     DiskWith(KeyFile(OldKey), Absent),
     DiskWith(Absent, CertFile(<<"h1">>, <<RoleAdmin>>, "d1", OldKey))}

\* one replica bootstrapping the cluster d1
SingleEnv == [procs |-> {1}, domains |-> {"d1"}, configs |-> "all", restarts |-> TRUE]
\* two replicas bootstrapping the cluster d1 on one backend, each started once
ReplicasEnv == [procs |-> {1, 2}, domains |-> {"d1"}, configs |-> "few", restarts |-> FALSE]

InitWith(e, backends, disks) ==
    /\ env = e
    /\ backend \in backends
    /\ disk \in [Procs -> disks \cup {EmptyDisk}]
    /\ \A p \in Procs \ e.procs : disk[p] = EmptyDisk
    /\ keygen = 0
    /\ lockLog = << >>
    /\ inv = [p \in Procs |-> IdleInv]
    /\ hist = [p \in Procs |-> NewHist]

Init == InitWith(SingleEnv, InitBackends, {EmptyDisk})

Step(p) ==
    \/ Call(p)
    \/ DoAcquireLock(p)
    \/ AcquireLockFail(p)
    \/ DoIsFirstStart(p)
    \/ isFirstStartFail(p)
    \/ DoSetClusterAuthPreference(p)
    \/ SetU2FFirstStart(p)
    \/ UpsertRoles(p)
    \/ UpsertAuthorities(p)
    \/ ListHostCAs(p)
    \/ ListUserCAs(p)
    \/ PruneCAs(p)
    \/ GetOwnCA(p, HostCA)
    \/ UpsertOwnCA(p, HostCA)
    \/ GetOwnCA(p, UserCA)
    \/ UpsertOwnCA(p, UserCA)
    \/ UpsertTunnels(p)
    \/ ListTunnels(p)
    \/ PruneTunnels(p)
    \/ UpsertConnectors(p)
    \/ ListConnectors(p)
    \/ ListConnectorsFail(p)
    \/ PruneConnectors(p)
    \/ SetU2F(p)
    \/ DoUpsertNamespace(p)
    \/ ListUsers(p)
    \/ ListUsersFail(p)
    \/ MigrateUsers(p)
    \/ MigrateUserRole(p)
    \/ MigrateUserUpsert(p)
    \/ ListCAs(p)
    \/ ListCAsFail(p)
    \/ MigrateCAs(p)
    \/ MigrateCAGetRole(p)
    \/ MigrateCARole(p)
    \/ MigrateCAUpsert(p)
    \/ DoPathExists(p)
    \/ DoGenerateServerKeys(p)
    \/ WriteKey(p)
    \/ WriteCert(p)
    \/ DoReadIdentity(p)
    \/ DoReleaseLock(p)
    \/ BackendFail(p)
    \/ InitKeysFail(p)

Next == \E p \in Procs : Step(p)

Spec == Init /\ [][Next]_vars

\* two replicas started side by side on a backend without a host CA of d1
InitReplicas ==
    InitWith(ReplicasEnv,
             {b \in InitBackends : b.cas[CertAuthID("d1", HostCA)] = Absent}, {EmptyDisk})
SpecReplicas == InitReplicas /\ [][Next]_vars

\* one replica started (and restarted) on a data directory that may hold files
KeysEnv == [procs |-> {1}, domains |-> {"d1"}, configs |-> "few", restarts |-> TRUE]
InitKeys ==
    InitWith(KeysEnv,
             {b \in InitBackends : b.cas[CertAuthID("d1", HostCA)] = Absent}, InitDisks)
SpecKeys == InitKeys /\ [][Next]_vars

\* two replicas with one configuration file when every call of Init that is
\* under way gets its turn: each backend and filesystem call returns, with a
\* result or an error
Running(p) == inv[p].pc # "idle" /\ Step(p)
Fairness == \A p \in Procs : WF_vars(Running(p))
FairEnv == [procs |-> {1, 2}, domains |-> {"d1"}, configs |-> "plain", restarts |-> FALSE]
InitFair ==
    InitWith(FairEnv,
             {b \in InitBackends : b.cas[CertAuthID("d1", HostCA)] = Absent}, {EmptyDisk})
SpecFair == InitFair /\ [][Next]_vars /\ Fairness

\* two auth servers started side by side on one backend, each configured for
\* d1 or for d2
DomainsEnv == [procs |-> {1, 2}, domains |-> {"d1", "d2"}, configs |-> "bare", restarts |-> FALSE]
InitDomains == InitWith(DomainsEnv, {EmptyBackend}, {EmptyDisk})
\* the steps of Init that can be taken there: without a U2F section nothing
\* is written to the second factor settings, and a backend that starts empty
\* holds no legacy user or CA to migrate
StepDomains(p) ==
    \/ Call(p)
    \/ DoAcquireLock(p)
    \/ AcquireLockFail(p)
    \/ DoIsFirstStart(p)
    \/ isFirstStartFail(p)
    \/ DoSetClusterAuthPreference(p)
    \/ UpsertRoles(p)
    \/ UpsertAuthorities(p)
    \/ ListHostCAs(p)
    \/ ListUserCAs(p)
    \/ PruneCAs(p)
    \/ GetOwnCA(p, HostCA)
    \/ UpsertOwnCA(p, HostCA)
    \/ GetOwnCA(p, UserCA)
    \/ UpsertOwnCA(p, UserCA)
    \/ UpsertTunnels(p)
    \/ ListTunnels(p)
    \/ PruneTunnels(p)
    \/ UpsertConnectors(p)
    \/ ListConnectors(p)
    \/ ListConnectorsFail(p)
    \/ PruneConnectors(p)
    \/ DoUpsertNamespace(p)
    \/ ListUsers(p)
    \/ ListUsersFail(p)
    \/ MigrateUsers(p)
    \/ ListCAs(p)
    \/ ListCAsFail(p)
    \/ MigrateCAs(p)
    \/ DoPathExists(p)
    \/ DoGenerateServerKeys(p)
    \/ WriteKey(p)
    \/ WriteCert(p)
    \/ DoReadIdentity(p)
    \/ DoReleaseLock(p)
    \/ BackendFail(p)
    \/ InitKeysFail(p)

NextDomains == \E p \in Procs : StepDomains(p)

SpecDomains == InitDomains /\ [][NextDomains]_vars

\* ------------------------------------------------- the identity store alone
\* key and certificate files as they may lie in a data directory
KeyBytesSet == {EmptyBytes, Garbage, KeyFile(OldKey), KeyFile(CfgKey)}
PrincipalLists == {<< >>, <<"h1">>, <<"">>, <<"h1", "">>, <<"h2", "node">>}
ExtensionSets ==
    {r \cup a \cup o :
        r \in {{}} \cup {{<<CertExtensionRole, str>>} : str \in RoleStrings},
        a \in {{}, {<<CertExtensionAuthority, "">>}, {<<CertExtensionAuthority, "d1">>}},
        o \in {{}, {<<"permit-pty", "">>}}}
CertBytesSet ==
    {EmptyBytes, Garbage, PublicKey(OldKey)} \cup
    {Certificate(pr, ex, OldKey) : pr \in PrincipalLists, ex \in ExtensionSets}

IdentityDataDir == "/var/lib/teleport"
IdentityEnv == [procs |-> {1}, domains |-> {"d1"}, configs |-> "few", restarts |-> FALSE]

InitIdentity ==
    /\ env = IdentityEnv
    /\ backend = EmptyBackend
    /\ \E key \in KeyBytesSet \cup {Absent}, cert \in CertBytesSet \cup {Absent} :
          disk = [p \in Procs |-> IF p \in IdentityEnv.procs THEN DiskWith(key, cert) ELSE EmptyDisk]
    /\ keygen = 0
    /\ lockLog = << >>
    /\ inv = [p \in Procs |-> IdleInv]
    /\ hist = [p \in Procs |-> NewHist]

\* ReadIdentity(dataDir, id) by a caller: the role of id selects the files
LoadIdentity(p) ==
    /\ p \in env.procs
    /\ inv[p].pc = "idle"
    /\ \E role \in Roles :
          LET i == ReadIdentity(disk[p], IdentityDataDir, IdentityID(role, "", ""))
          IN inv' = [inv EXCEPT ![p].pc = "loaded", ![p].list = <<role>>,
                                ![p].ret = IF i.kind = "identity" THEN Success(i) ELSE Error(i.err)]
    /\ UNCHANGED <<backend, disk, keygen, hist, lockLog, env>>

\* GenerateServerKeys for a host, a role and the domain of the signing CA
IssueIdentity(p) ==
    /\ p \in env.procs
    /\ inv[p].pc = "idle" /\ inv[p].tmp = Nil
    /\ keygen < MaxKeys
    /\ keygen' = keygen + 1
    /\ \E hostUUID \in {"h1", "h2"}, role \in Roles, domain \in Clusters :
          inv' = [inv EXCEPT ![p].pc = "writeKeys",
                             ![p].tmp = [id |-> IdentityID(role, hostUUID, "node"),
                                         domain |-> domain,
                                         packed |-> GenerateServerKeys(hostUUID, "node", <<role>>,
                                                                       domain, GenKey(keygen + 1))]]
    /\ UNCHANGED <<backend, disk, hist, lockLog, env>>

\* writeKeys(dataDir, id, key, cert): both files written
DoWriteKeys(p) ==
    /\ inv[p].pc = "writeKeys"
    /\ LET paths == keysPath(IdentityDataDir, inv[p].tmp.id)
       IN disk' = [disk EXCEPT ![p] = [[@ EXCEPT ![paths.key] = inv[p].tmp.packed.Key]
                                          EXCEPT ![paths.cert] = inv[p].tmp.packed.Cert]]
    /\ inv' = [inv EXCEPT ![p].pc = "idle"]
    /\ UNCHANGED <<backend, keygen, hist, lockLog, env>>

\* writeKeys when ioutil.WriteFile fails: on the key file (line 457, nothing
\* written) or on the certificate file (line 460, the key file written)
WriteKeysFail(p) ==
    /\ inv[p].pc = "writeKeys"
    /\ \E keyWritten \in BOOLEAN :
          disk' = [disk EXCEPT ![p][keysPath(IdentityDataDir, inv[p].tmp.id).key] =
                                      IF keyWritten THEN inv[p].tmp.packed.Key ELSE @]
    /\ inv' = [inv EXCEPT ![p].pc = "loaded", ![p].tmp = Nil, ![p].ret = Error("io")]
    /\ UNCHANGED <<backend, keygen, hist, lockLog, env>>

StepIdentity(p) ==
    \/ LoadIdentity(p)
    \/ IssueIdentity(p)
    \/ DoWriteKeys(p)
    \/ WriteKeysFail(p)

NextIdentity == \E p \in Procs : StepIdentity(p)

SpecIdentity == InitIdentity /\ [][NextIdentity]_vars

\* ------------------------------------------------------ IdentityID.Equals
\* three identity IDs and the outcome of Equals on every pair of them
IdentityIDs == {IdentityID(r, h, n) : r \in Roles, h \in {"h1", "h2"}, n \in {"node", "n2"}}
EqualsEnv == [procs |-> {1}, domains |-> {"d1"}, configs |-> "few", restarts |-> FALSE]

InitEquals ==
    /\ env = EqualsEnv
    /\ backend = EmptyBackend
    /\ disk = [p \in Procs |-> EmptyDisk]
    /\ keygen = 0
    /\ lockLog = << >>
    /\ \E a \in IdentityIDs, b \in IdentityIDs, c \in IdentityIDs :
          inv = [p \in Procs |-> IF p \in EqualsEnv.procs THEN [IdleInv EXCEPT !.list = <<a, b, c>>]
                                 ELSE IdleInv]
    /\ hist = [p \in Procs |-> NewHist]

\* id.Equals(other) for every pair of the three
DoEquals(p) ==
    /\ p \in env.procs
    /\ inv[p].pc = "idle"
    /\ inv' = [inv EXCEPT ![p].pc = "compared",
                          ![p].tmp = [j \in 1..3, k \in 1..3 |-> Equals(inv[p].list[j], inv[p].list[k])]]
    /\ UNCHANGED <<backend, disk, keygen, hist, lockLog, env>>

NextEquals == \E p \in Procs : DoEquals(p)

SpecEquals == InitEquals /\ [][NextEquals]_vars

\* ------------------------------------------------------------------- claims
\* the last call of replica p has returned
Returned(p) == hist[p].calls > 0 /\ inv[p].pc = "idle"
Succeeded(p) == Returned(p) /\ inv[p].ret.kind = "ok"
\* the last call of p succeeded and no call it made failed
FaultFree(p) == Succeeded(p) /\ ~hist[p].failed

ApplyPcs == {"UpsertRoles", "UpsertAuthorities", "UpsertTunnels", "UpsertConnectors"}
StoredNames(f) == {n \in DOMAIN f : f[n] # Absent}
Names(list, field) == {list[j][field] : j \in 1..Len(list)}

\* C4: first start is true iff the host CA of the domain is not found, and a
\* lookup failure aborts Init before any write; a successful Init on an empty
\* backend takes the first-start branch and leaves one host CA and one user
\* CA of the domain.
C4_FirstStartDetection ==
    \A p \in Procs :
        /\ hist[p].determined =>
              inv[p].firstStart = (hist[p].start.cas[hostCAId(p)] = Absent)
        /\ (hist[p].locked /\ ~hist[p].determined /\ inv[p].pc # "isFirstStart") =>
              /\ inv[p].ret.kind = "err"
              /\ hist[p].wrote = {} /\ hist[p].deleted = {}
        /\ (Succeeded(p) /\ hist[p].start.cas = EmptyBackend.cas) =>
              /\ inv[p].firstStart
              /\ \A t \in CATypes :
                    /\ backend.cas[CertAuthID(cfgOf(p).DomainName, t)] # Absent
                    /\ backend.cas[CertAuthID(cfgOf(p).DomainName, t)].Type = t
                    /\ backend.cas[CertAuthID(cfgOf(p).DomainName, t)].ClusterName
                          = cfgOf(p).DomainName

C4_Witness ==
    \E p \in Procs :
        /\ Succeeded(p) /\ hist[p].start.cas = EmptyBackend.cas /\ inv[p].firstStart
        /\ {hostCAId(p), userCAId(p)} \subseteq hist[p].generated

\* C5: after an Init with seed mode off in which no backend call failed, the
\* stored reverse tunnels are exactly the configured ones and the stored
\* connectors are exactly the configured ones.
C5_ReconciliationPrune ==
    \A p \in Procs :
        (FaultFree(p) /\ ~inv[p].seedConfig) =>
            /\ StoredNames(backend.tunnels) = Names(cfgOf(p).ReverseTunnels, "ClusterName")
            /\ StoredNames(backend.connectors) = Names(cfgOf(p).OIDCConnectors, "Name")

C5_Witness ==
    \E p \in Procs :
        /\ FaultFree(p) /\ ~inv[p].seedConfig
        /\ hist[p].start.tunnels["B"] # Absent /\ hist[p].start.tunnels["A"] = Absent
        /\ backend.tunnels["B"] = Absent /\ backend.tunnels["A"] # Absent
        /\ hist[p].start.connectors["c2"] # Absent /\ backend.connectors["c2"] = Absent

\* C6: with seed mode on and the host CA of the domain present, Init applies
\* none of the configured roles, authorities, tunnels and connectors and
\* deletes nothing; the stored roles, tunnels and connectors stay as they were.
C6_SeedSkip ==
    \A p \in Procs :
        (hist[p].determined /\ inv[p].seedConfig /\ hist[p].start.cas[hostCAId(p)] # Absent) =>
            /\ \A w \in hist[p].wrote : w[1] \notin ApplyPcs
            /\ hist[p].deleted = {}
            /\ \A n \in StoredNames(hist[p].start.roles) : backend.roles[n] = hist[p].start.roles[n]
            /\ backend.tunnels = hist[p].start.tunnels
            /\ backend.connectors = hist[p].start.connectors

C6_Witness ==
    \E p \in Procs :
        /\ Succeeded(p) /\ inv[p].seedConfig /\ hist[p].start.cas[hostCAId(p)] # Absent
        /\ hist[p].start.roles["r"] = StoredRole("s2") /\ backend.roles["r"] = StoredRole("s2")
        /\ cfgOf(p).Roles = <<ConfigRole("r", "s1")>>
        /\ backend.tunnels["A"] = Absent

\* C8: with an empty data directory or an empty host UUID Init returns a
\* bad-parameter error without taking the lock and without any backend or
\* filesystem operation.
C8_ConfigPrecondition ==
    /\ [](\A p \in Procs :
            (hist[p].calls > 0 /\ (cfgOf(p).DataDir = "" \/ cfgOf(p).HostUUID = "")) =>
                /\ inv[p].pc = "idle"
                /\ inv[p].ret = Error("BadParameter")
                /\ ~hist[p].locked
                /\ hist[p].wrote = {} /\ hist[p].deleted = {})
    /\ [][\A p \in Procs :
            (hist'[p].calls # hist[p].calls
                /\ (inv'[p].cfg.DataDir = "" \/ inv'[p].cfg.HostUUID = "")) =>
                /\ backend' = backend /\ disk' = disk /\ lockLog' = lockLog
                /\ keygen' = keygen]_vars

C8_Witness ==
    \E p \in Procs :
        /\ Returned(p) /\ cfgOf(p).HostUUID = "" /\ cfgOf(p).DataDir # ""
        /\ inv[p].ret = Error("BadParameter")

EnsurePcs(type) == IF type = HostCA THEN {"GetHostCA", "UpsertHostCA"} ELSE {"GetUserCA", "UpsertUserCA"}

\* C9: the ensure step of Init writes the CA of (domain, type) only when
\* there is none, and then a generated one; a record that exists is not
\* written, and a failed step writes nothing.
C9_EnsureNeverOverwrites ==
    [][\A p \in Procs : \A t \in CATypes :
          LET id == CertAuthID(cfgOf(p).DomainName, t) IN
          inv[p].pc \in EnsurePcs(t) =>
              /\ backend.cas[id] # Absent => backend'.cas[id] = backend.cas[id]
              /\ backend'.cas[id] # backend.cas[id] =>
                    /\ backend'.cas[id] = CertAuthority(cfgOf(p).DomainName, t, GenKey(keygen'), V2)
                    /\ keygen' = keygen + 1
              /\ inv'[p].ret.kind = "err" => backend' = backend]_vars

C9_Witness ==
    \E p \in Procs :
        /\ inv[p].pc = "UpsertTunnels"
        /\ hist[p].start.cas[hostCAId(p)] # Absent
        /\ backend.cas[hostCAId(p)] = hist[p].start.cas[hostCAId(p)]
        /\ hist[p].generated = {userCAId(p)}

\* C7: whenever a backend operation of Init fails with an error other than
\* not-found, Init returns an error (and neither a server nor an identity).
C7_ErrorPropagation ==
    \A p \in Procs : (Returned(p) /\ hist[p].failed) => inv[p].ret.kind = "err"

\* C10: a stored current-format CA of the own domain keeps its keys through
\* every step of every Init call.
C10_OwnCAStable ==
    [][\A d \in env.domains : \A t \in CATypes :
          LET id == CertAuthID(d, t) IN
          (backend.cas[id] # Absent /\ backend.cas[id].version = V2) =>
              /\ backend'.cas[id] # Absent
              /\ backend'.cas[id].keys = backend.cas[id].keys]_vars

\* C2: a second Init with the same configuration, right after a successful
\* one, leaves the backend as the first call left it and deletes nothing.
C2_Idempotence ==
    \A p \in Procs :
        (Succeeded(p) /\ hist[p].prev # Nil /\ hist[p].prev.ret.kind = "ok") =>
            /\ backend = hist[p].start
            /\ hist[p].deleted = {}

\* the same for a first call in which no backend call failed
C2_IdempotenceFaultFree ==
    \A p \in Procs :
        (Succeeded(p) /\ hist[p].prev # Nil /\ hist[p].prev.ret.kind = "ok"
            /\ ~hist[p].prev.failed) =>
            /\ backend = hist[p].start
            /\ hist[p].deleted = {}

\* ------------------------------------------------- Init without any failure
\* What one call of Init makes of a backend and a data directory when no
\* call fails: the phases of Init in their order, as functions.
RECURSIVE ApplyAll(_, _, _)
ApplyAll(Op(_, _), b, list) ==
    IF list = << >> THEN b ELSE ApplyAll(Op, Op(b, Head(list)), Tail(list))

UpsertGenerated(b, ca) == UpsertCertAuthority(b, GenerateCertAuthority(ca))
PruneCAsOf(b, domain, keep) ==
    [b EXCEPT !.cas = [id \in CAIds |->
        IF id[1] # domain /\ id[1] \notin keep THEN Absent ELSE b.cas[id]]]
EnsureCA(b, domain, type) ==
    IF b.cas[CertAuthID(domain, type)] # Absent THEN b
    ELSE UpsertCertAuthority(b, CertAuthority(domain, type, GenKey(0), V2))
PruneTunnelsOf(b, keep) ==
    [b EXCEPT !.tunnels = [n \in TunnelNames |-> IF n \in keep THEN b.tunnels[n] ELSE Absent]]
PruneConnectorsOf(b, keep) ==
    [b EXCEPT !.connectors = [n \in ConnectorNames |-> IF n \in keep THEN b.connectors[n] ELSE Absent]]
MigrateUser(b, name) ==
    IF b.users[name] = Absent \/ b.users[name].version # V1 THEN b
    ELSE UpsertUser(UpsertRole(b, RoleForUser(name, b.users[name])), name,
                    StoredUser(V2, b.users[name].roles \cup {RoleNameForUser(name)}, ""))
migrateCertAuthority(b, cluster) ==
    LET in == b.cas[CertAuthID(cluster, UserCA)] IN
    IF in = Absent \/ ~isLegacyCA(in) THEN b
    ELSE IF b.roles[RoleNameForCertAuthority(cluster)] # Absent THEN b
    ELSE UpsertCertAuthority(UpsertRole(b, ConvertV1CertAuthority(in).role),
                             ConvertV1CertAuthority(in).ca)

InitBackend(b, cfg, seedConfig) ==
    LET firstStart == isFirstStart(b, cfg)
        skip == seedConfig /\ ~firstStart
        b1 == IF firstStart THEN SetClusterAuthPreference(b, cfg.AuthPreference) ELSE b
        b2 == IF firstStart /\ cfg.U2F # Nil THEN SetUniversalSecondFactor(b1, cfg.U2F) ELSE b1
        b3 == IF skip THEN b2 ELSE ApplyAll(UpsertRole, b2, cfg.Roles)
        b4 == IF skip THEN b3 ELSE ApplyAll(UpsertGenerated, b3, cfg.Authorities)
        b5 == IF seedConfig THEN b4
              ELSE PruneCAsOf(b4, cfg.DomainName, Names(cfg.Authorities, "ClusterName"))
        b6 == EnsureCA(EnsureCA(b5, cfg.DomainName, HostCA), cfg.DomainName, UserCA)
        b7 == IF skip THEN b6 ELSE ApplyAll(UpsertReverseTunnel, b6, cfg.ReverseTunnels)
        b8 == IF seedConfig THEN b7
              ELSE PruneTunnelsOf(b7, Names(cfg.ReverseTunnels, "ClusterName"))
        b9 == IF skip THEN b8 ELSE ApplyAll(UpsertOIDCConnector, b8, cfg.OIDCConnectors)
        b10 == IF seedConfig THEN b9
               ELSE PruneConnectorsOf(b9, Names(cfg.OIDCConnectors, "Name"))
        b11 == IF cfg.U2F # Nil THEN SetUniversalSecondFactor(b10, cfg.U2F) ELSE b10
        b12 == UpsertNamespace(b11, DefaultNamespace)
        b13 == ApplyAll(MigrateUser, b12, GetUsers(b12))
    IN ApplyAll(migrateCertAuthority, b13, GetCertAuthorities(b13, UserCA))

InitDisk(d, cfg) ==
    LET id == IdentityID(RoleAdmin, cfg.HostUUID, cfg.NodeName)
        paths == keysPath(cfg.DataDir, id)
        packed == GenerateServerKeys(id.HostUUID, id.NodeName, <<id.Role>>, cfg.DomainName, GenKey(0))
    IN IF pathExists(d, paths.key) /\ pathExists(d, paths.cert) THEN d
       ELSE [d EXCEPT ![paths.key] = packed.Key, ![paths.cert] = packed.Cert]

\* generated keys differ from run to run: states are compared up to them
NormKey(k) == IF k.src = "gen" THEN GenKey(0) ELSE k
NormBackend(b) ==
    [b EXCEPT !.cas = [id \in CAIds |->
        IF b.cas[id] = Absent THEN Absent ELSE [b.cas[id] EXCEPT !.keys = NormKey(@)]]]
NormDisk(d) ==
    [path \in DOMAIN d |-> IF d[path] = Absent THEN Absent ELSE [d[path] EXCEPT !.keys = NormKey(@)]]

\* a first call without failure ends as the functions say
InitAsComputed ==
    \A p \in Procs :
        (FaultFree(p) /\ hist[p].prev = Nil) =>
            /\ NormBackend(backend) = NormBackend(InitBackend(hist[p].start, cfgOf(p), inv[p].seedConfig))
            /\ NormDisk(disk[p]) = NormDisk(InitDisk(hist[p].startDisk, cfgOf(p)))

\* C3: when a call of Init was aborted by one failing backend or filesystem
\* operation, a second call with the same configuration and no failure ends
\* in the backend and identity files of a call from the first state in which
\* nothing failed.
C3_SafeRetry ==
    \A p \in Procs :
        (FaultFree(p) /\ hist[p].calls = 2 /\ hist[p].prev.ret.kind = "err"
            /\ hist[p].prev.failed /\ ~hist[p].prev.ignored) =>
            /\ NormBackend(backend) =
                  NormBackend(InitBackend(hist[p].origin.backend, cfgOf(p), inv[p].seedConfig))
            /\ NormDisk(disk[p]) = NormDisk(InitDisk(hist[p].origin.disk, cfgOf(p)))

\* the first calls of both replicas, which started without a host CA of d1
FirstCalls == \A p \in Procs : hist[p].calls = 1

\* C1: of two Init calls on one domain that start without a host CA, at most
\* one generates the host CA, and once both have returned the host CA carries
\* the keys written by the call that held the lock first.
C1_LockDiscipline ==
    FirstCalls =>
        /\ ~(\A p \in Procs : hostCAId(p) \in hist[p].generated)
        /\ (\A p \in Procs : Succeeded(p)) =>
              /\ backend.cas[CertAuthID("d1", HostCA)] # Absent
              /\ backend.cas[CertAuthID("d1", HostCA)].keys = hist[lockLog[1][1]].hostKeys

\* the same for replicas whose configuration names no authority of d1
C1_WithoutOwnAuthority ==
    (FirstCalls /\ \A p \in Procs : "d1" \notin Names(cfgOf(p).Authorities, "ClusterName")) =>
        /\ ~(\A p \in Procs : hostCAId(p) \in hist[p].generated)
        /\ (\A p \in Procs : Succeeded(p)) =>
              /\ backend.cas[CertAuthID("d1", HostCA)] # Absent
              /\ backend.cas[CertAuthID("d1", HostCA)].keys = hist[lockLog[1][1]].hostKeys
              /\ hostCAId(lockLog[1][1]) \in hist[lockLog[1][1]].generated

\* C11: Init never deletes a CA of the configured domain, and after a
\* successful Init with seed mode off every stored CA is of the configured
\* domain or of the cluster of a configured authority.
C11_CAPruneKeepsOwn ==
    \A p \in Procs :
        /\ \A d \in hist[p].deleted :
              d[2][1] = "ca" => d[2][2][1] # cfgOf(p).DomainName
        /\ (Succeeded(p) /\ ~inv[p].seedConfig) =>
              \A id \in CAIds :
                  backend.cas[id] # Absent =>
                      \/ id[1] = cfgOf(p).DomainName
                      \/ id[1] \in Names(cfgOf(p).Authorities, "ClusterName")

C11_Witness ==
    \E p \in Procs :
        /\ Succeeded(p) /\ ~inv[p].seedConfig
        /\ hist[p].start.cas[CertAuthID("d2", UserCA)] # Absent
        /\ hist[p].start.cas[hostCAId(p)] # Absent
        /\ "d1" \notin Names(cfgOf(p).Authorities, "ClusterName")
        /\ <<"PruneCAs", <<"ca", CertAuthID("d2", UserCA)>>>> \in hist[p].deleted
        /\ backend.cas[CertAuthID("d2", UserCA)] = Absent
        /\ backend.cas[hostCAId(p)] = hist[p].start.cas[hostCAId(p)]

\* C12: with seed mode on, first start or not, Init deletes no CA, reverse
\* tunnel or connector: what was stored stays stored; on a first start with
\* seed mode on the configured roles, authorities, tunnels and connectors
\* are stored all the same.
C12_SeedNeverPrunes ==
    \A p \in Procs :
        /\ (hist[p].locked /\ inv[p].seedConfig) =>
              /\ hist[p].deleted = {}
              /\ \A id \in CAIds : hist[p].start.cas[id] # Absent => backend.cas[id] # Absent
              /\ \A n \in TunnelNames :
                    hist[p].start.tunnels[n] # Absent => backend.tunnels[n] # Absent
              /\ \A n \in ConnectorNames :
                    hist[p].start.connectors[n] # Absent => backend.connectors[n] # Absent
        /\ (Succeeded(p) /\ inv[p].seedConfig /\ inv[p].firstStart) =>
              /\ \A j \in 1..Len(cfgOf(p).Roles) :
                    backend.roles[cfgOf(p).Roles[j].name] = StoredRole(cfgOf(p).Roles[j].spec)
              /\ \A j \in 1..Len(cfgOf(p).Authorities) :
                    /\ backend.cas[GetID(cfgOf(p).Authorities[j])] # Absent
                    /\ backend.cas[GetID(cfgOf(p).Authorities[j])].keys = cfgOf(p).Authorities[j].keys
              /\ \A j \in 1..Len(cfgOf(p).ReverseTunnels) :
                    backend.tunnels[cfgOf(p).ReverseTunnels[j].ClusterName]
                        = StoredTunnel(cfgOf(p).ReverseTunnels[j])
              /\ \A j \in 1..Len(cfgOf(p).OIDCConnectors) :
                    backend.connectors[cfgOf(p).OIDCConnectors[j].Name]
                        = StoredConnector(cfgOf(p).OIDCConnectors[j])

C12_Witness ==
    \E p \in Procs :
        /\ Succeeded(p) /\ inv[p].seedConfig /\ inv[p].firstStart
        /\ hist[p].start.tunnels["B"] # Absent /\ backend.tunnels["B"] # Absent
        /\ hist[p].start.tunnels["A"] = Absent /\ backend.tunnels["A"] # Absent
        /\ hist[p].start.connectors["c2"] # Absent /\ backend.connectors["c2"] # Absent
        /\ backend.connectors["c1"] # Absent
        /\ hist[p].start.cas[CertAuthID("d2", HostCA)] # Absent
        /\ backend.cas[CertAuthID("d2", HostCA)] # Absent
        /\ "d2" \notin Names(cfgOf(p).Authorities, "ClusterName")

\* C13: Init writes the configured authentication preference iff it is the
\* first start; on a backend that has the host CA the stored preference
\* stays as it was, whatever the configured one.
C13_AuthPreferenceOnFirstStart ==
    \A p \in Procs :
        /\ (hist[p].determined /\ ~inv[p].firstStart) =>
              /\ \A w \in hist[p].wrote : w[2] # <<"authPreference">>
              /\ backend.authPreference = hist[p].start.authPreference
        /\ (Succeeded(p) /\ inv[p].firstStart) =>
              /\ <<"SetClusterAuthPreference", <<"authPreference">>>> \in hist[p].wrote
              /\ backend.authPreference = [kind |-> "pref", value |-> cfgOf(p).AuthPreference]

C13_Witness ==
    \E p \in Procs :
        /\ Succeeded(p) /\ ~inv[p].firstStart
        /\ hist[p].start.cas[hostCAId(p)] # Absent
        /\ hist[p].start.authPreference = [kind |-> "pref", value |-> "oidc"]
        /\ cfgOf(p).AuthPreference = "local"
        /\ backend.authPreference = [kind |-> "pref", value |-> "oidc"]

\* C14: after a successful Init whose configuration has second factor
\* settings the stored settings are the configured ones, whatever the seed
\* mode and the first start; without configured settings Init never writes
\* them.
C14_U2FEveryStart ==
    \A p \in Procs :
        /\ (Succeeded(p) /\ cfgOf(p).U2F # Nil) => backend.u2f = cfgOf(p).U2F
        /\ (hist[p].locked /\ cfgOf(p).U2F = Nil) =>
              /\ \A w \in hist[p].wrote : w[2] # <<"u2f">>
              /\ backend.u2f = hist[p].start.u2f

C14_Witness ==
    \E p \in Procs :
        /\ Succeeded(p) /\ inv[p].seedConfig /\ ~inv[p].firstStart
        /\ cfgOf(p).U2F = [kind |-> "u2f", appID |-> "app1"]
        /\ hist[p].start.u2f = [kind |-> "u2f", appID |-> "app0"]
        /\ backend.u2f = [kind |-> "u2f", appID |-> "app1"]
        /\ <<"SetU2F", <<"u2f">>>> \in hist[p].wrote
        /\ \A w \in hist[p].wrote : w[1] \notin ApplyPcs

\* C15: initKeys issues a key and certificate and writes both files iff one
\* of the two files is missing; when both are there it writes neither, and
\* when their content does not validate Init returns the error and leaves
\* the files as they were.
C15_RegenerateOnlyOnAbsence ==
    \A p \in Procs :
        hist[p].locked =>
            LET d0 == hist[p].startDisk
                both == pathExists(d0, kp(p)) /\ pathExists(d0, cp(p))
            IN /\ both =>
                    /\ disk[p] = d0
                    /\ \A w \in hist[p].wrote : w[2][1] # "file"
                    /\ (Returned(p) /\ ReadIdentity(d0, cfgOf(p).DataDir, idOf(p)).kind = "err") =>
                          inv[p].ret.kind = "err"
               /\ (~both /\ Returned(p) /\ ~hist[p].failed) =>
                    /\ Succeeded(p)
                    /\ {<<"WriteKey", <<"file", kp(p)>>>>, <<"WriteCert", <<"file", cp(p)>>>>}
                          \subseteq hist[p].wrote
                    /\ disk[p][kp(p)].keys.src = "gen"
                    /\ disk[p][cp(p)].keys = disk[p][kp(p)].keys

C15_Witness ==
    \E p \in Procs :
        /\ Returned(p) /\ hist[p].locked /\ ~hist[p].failed
        /\ hist[p].startDisk[kp(p)] = KeyFile(OldKey)
        /\ hist[p].startDisk[cp(p)] = CertFile(<< >>, <<RoleAdmin>>, "d1", OldKey)
        /\ inv[p].ret = Error("BadParameter")
        /\ disk[p] = hist[p].startDisk

\* the pair of files that a load has read
LoadedKey(p) == disk[p][keysPath(IdentityDataDir, IdentityID(inv[p].list[1], "", "")).key]
LoadedCert(p) == disk[p][keysPath(IdentityDataDir, IdentityID(inv[p].list[1], "", "")).cert]
Loaded(p) ==
    /\ inv[p].pc = "loaded" /\ inv[p].list # << >>
    /\ LoadedKey(p) # Absent /\ LoadedCert(p) # Absent

\* C16: a certificate without valid principals, and a certificate whose role
\* extension parses to two roles, are both rejected with a bad-parameter
\* error.
C16_RejectionKind ==
    \A p \in Procs :
        (Loaded(p) /\ LoadedKey(p).kind = "key" /\ LoadedCert(p).kind = "cert"
            /\ LoadedCert(p).keys = LoadedKey(p).keys) =>
            /\ LoadedCert(p).principals = << >> => inv[p].ret = Error("BadParameter")
            /\ (validPrincipals(LoadedCert(p).principals)
                  /\ <<CertExtensionRole, "Admin,Node">> \in LoadedCert(p).extensions) =>
                  inv[p].ret = Error("BadParameter")

\* C17: an identity is returned only for non-empty key and certificate
\* bytes, a certificate with at least one principal and no empty one, at
\* least one extension, a role extension that parses to exactly one role and
\* a non-empty authority extension; every other input gets an error.
C17_IdentityValidity ==
    \A p \in Procs :
        Loaded(p) =>
            LET key == LoadedKey(p)
                cert == LoadedCert(p)
                valid ==
                    /\ key.kind # "empty" /\ cert.kind # "empty"
                    /\ cert.kind = "cert"
                    /\ Len(cert.principals) >= 1
                    /\ \A j \in 1..Len(cert.principals) : cert.principals[j] # ""
                    /\ cert.extensions # {}
                    /\ \E e \in cert.extensions :
                          /\ e[1] = CertExtensionRole
                          /\ ParseRoles(e[2]).kind = "roles"
                          /\ Len(ParseRoles(e[2]).roles) = 1
                    /\ \E e \in cert.extensions : e[1] = CertExtensionAuthority /\ e[2] # ""
            IN /\ inv[p].ret.kind \in {"ok", "err"}
               /\ inv[p].ret.kind = "ok" => valid
               /\ ~valid => inv[p].ret.kind = "err"

C17_Witness ==
    \E p \in Procs :
        /\ Loaded(p) /\ inv[p].tmp = Nil
        /\ LoadedCert(p) = Certificate(<<"h2", "node">>,
                              {<<CertExtensionRole, "Admin">>, <<CertExtensionAuthority, "d1">>,
                               <<"permit-pty", "">>}, OldKey)
        /\ inv[p].ret.kind = "ok"
        /\ inv[p].ret.identity.ID.HostUUID = "h2"

\* C18: a key and certificate issued for a host UUID, a role and a domain,
\* written with writeKeys and read back with ReadIdentity for the same role,
\* give the identity of that role, host UUID and domain, with the bytes
\* that were written.
C18_RoundTrip ==
    \A p \in Procs :
        (inv[p].pc = "loaded" /\ inv[p].tmp # Nil /\ inv[p].list = <<inv[p].tmp.id.Role>>) =>
            /\ inv[p].ret.kind = "ok"
            /\ inv[p].ret.identity.ID.Role = inv[p].tmp.id.Role
            /\ inv[p].ret.identity.ID.HostUUID = inv[p].tmp.id.HostUUID
            /\ inv[p].ret.identity.AuthorityDomain = inv[p].tmp.domain
            /\ inv[p].ret.identity.KeyBytes = inv[p].tmp.packed.Key
            /\ inv[p].ret.identity.CertBytes = inv[p].tmp.packed.Cert

C18_Witness ==
    \E p \in Procs :
        /\ inv[p].pc = "loaded" /\ inv[p].tmp # Nil /\ inv[p].list = <<"Node">>
        /\ inv[p].tmp.id = IdentityID("Node", "h2", "node") /\ inv[p].tmp.domain = "d2"
        /\ inv[p].ret.kind = "ok"
        /\ inv[p].ret.identity.ID = [Role |-> "Node", HostUUID |-> "h2", NodeName |-> ""]
        /\ inv[p].ret.identity.AuthorityDomain = "d2"

MigrateCAPcs == {"MigrateCARole", "MigrateCAUpsert"}

\* C19: in an Init without a failed call, a stored legacy user CA whose
\* companion role does not exist gets exactly its companion role and its
\* current-format record written; only legacy records are written by the
\* migration, and a second Init migrates nothing.
C19_CAMigration ==
    \A p \in Procs :
        (Returned(p) /\ hist[p].locked /\ ~hist[p].failed) =>
            /\ \A c \in Clusters :
                  LET id == CertAuthID(c, UserCA)
                      role == RoleNameForCertAuthority(c)
                      migrated == <<"MigrateCAUpsert", <<"ca", id>>>> \in hist[p].wrote
                  IN /\ migrated <=> <<"MigrateCARole", <<"role", role>>>> \in hist[p].wrote
                     /\ migrated =>
                           /\ hist[p].start.cas[id] # Absent
                           /\ hist[p].start.cas[id].version = V1
                           /\ hist[p].start.roles[role] = Absent
                           /\ backend.cas[id] = ConvertV1CertAuthority(hist[p].start.cas[id]).ca
                           /\ backend.cas[id].version = V2
                           /\ backend.roles[role]
                                 = StoredRole(ConvertV1CertAuthority(hist[p].start.cas[id]).role.spec)
                     /\ (backend.cas[id] # Absent /\ backend.cas[id].version = V1) =>
                           backend.roles[role] # Absent
            /\ \A w \in hist[p].wrote :
                  w[1] \in MigrateCAPcs =>
                      w[2] \in {<<"ca", CertAuthID(c, UserCA)>> : c \in Clusters}
                                  \cup {<<"role", RoleNameForCertAuthority(c)>> : c \in Clusters}
            /\ (hist[p].prev # Nil /\ hist[p].prev.ret.kind = "ok" /\ ~hist[p].prev.failed) =>
                  \A w \in hist[p].wrote : w[1] \notin MigrateCAPcs

C19_Witness ==
    \E p \in Procs :
        /\ Returned(p) /\ hist[p].locked /\ ~hist[p].failed
        /\ hist[p].prev # Nil /\ hist[p].prev.ret.kind = "ok" /\ ~hist[p].prev.failed
        /\ hist[p].origin.backend.cas[CertAuthID("d2", UserCA)] = LegacyCA("d2", UserCA)
        /\ hist[p].origin.backend.roles[RoleNameForCertAuthority("d2")] = Absent
        /\ hist[p].start.cas[CertAuthID("d2", UserCA)] = CurrentCA("d2", UserCA)
        /\ hist[p].start.roles[RoleNameForCertAuthority("d2")] = StoredRole("ca-role")
        /\ backend = hist[p].start

MigrateUserPcs == {"MigrateUserRole", "MigrateUserUpsert"}

\* what C20 says of the call of replica p
UserMigrationDone(p) ==
    \A u \in UserNames :
        LET old == hist[p].start.users[u] IN
        /\ (old # Absent /\ old.version = V1) =>
              /\ backend.roles[RoleNameForUser(u)] = StoredRole(old.logins)
              /\ backend.users[u] # Absent
              /\ RoleNameForUser(u) \in backend.users[u].roles
        /\ (old # Absent /\ old.version # V1) =>
              /\ backend.users[u] = old
              /\ \A w \in hist[p].wrote :
                    w[1] \in MigrateUserPcs => w[2] \notin {<<"user", u>>, <<"role", RoleNameForUser(u)>>}

\* C20: after a successful Init every user that was stored in legacy shape
\* has its role, named after the user and with the legacy logins, stored and
\* attached; a user in current shape is not written, nor is a role for it.
C20_UserMigration == \A p \in Procs : Succeeded(p) => UserMigrationDone(p)

\* the same for a call in which no backend call failed
C20_UserMigrationFaultFree == \A p \in Procs : FaultFree(p) => UserMigrationDone(p)

\* C21: a.Equals(b) is true iff a and b have the same role and the same host
\* UUID, whatever their node names; the relation is reflexive, symmetric and
\* transitive.
C21_EqualsRelation ==
    \A p \in Procs :
        inv[p].pc = "compared" =>
            LET ids == inv[p].list
                eq == inv[p].tmp
            IN /\ \A j \in 1..3, k \in 1..3 :
                     eq[j, k] = (ids[j].Role = ids[k].Role /\ ids[j].HostUUID = ids[k].HostUUID)
               /\ \A j \in 1..3 : eq[j, j]
               /\ \A j \in 1..3, k \in 1..3 : eq[j, k] => eq[k, j]
               /\ (eq[1, 2] /\ eq[2, 3]) => eq[1, 3]

C21_Witness ==
    \E p \in Procs :
        /\ inv[p].pc = "compared"
        /\ inv[p].list[1].NodeName # inv[p].list[2].NodeName
        /\ inv[p].list[2].NodeName = inv[p].list[3].NodeName
        /\ inv[p].list[2] # inv[p].list[3]
        /\ inv[p].tmp[1, 2] /\ ~inv[p].tmp[2, 3] /\ ~inv[p].tmp[1, 3]

\* the replicas that hold the lock of a domain
Holders(name) == {p \in Procs : <<name, p>> \in backend.locks}
\* the backend without its locks
Stored(b) == [b EXCEPT !.locks = {}]

\* C22: at most one Init call holds the lock of the domain; a call writes
\* and deletes only while it holds the lock; and from the first-start
\* determination of a call to its return no other call writes or deletes.
C22_WritesUnderLock ==
    /\ [](\A name \in Clusters : Cardinality(Holders(name)) <= 1)
    /\ [][\A p \in Procs :
            /\ (hist'[p].calls = hist[p].calls
                  /\ (hist'[p].wrote # hist[p].wrote \/ hist'[p].deleted # hist[p].deleted)) =>
                  /\ p \in Holders(cfgOf(p).DomainName)
                  /\ <<cfgOf(p).DomainName, p>> \in backend'.locks
            /\ (inv'[p] # inv[p] /\ Stored(backend') # Stored(backend)) =>
                  p \in Holders(cfgOf(p).DomainName)
            /\ \A q \in Procs \ {p} :
                  (hist[q].determined /\ inv[q].pc # "idle"
                      /\ hist[p].calls > 0 /\ cfgOf(p).DomainName = cfgOf(q).DomainName) =>
                      /\ hist'[p].wrote = hist[p].wrote /\ hist'[p].deleted = hist[p].deleted
                      /\ Stored(backend') # Stored(backend) => inv'[q] # inv[q]]_vars

C22_Witness ==
    \E p \in Procs, q \in Procs :
        /\ lockLog = <<<<p, 1>>, <<q, 1>>>>
        /\ Returned(p) /\ hist[p].wrote # {}
        /\ inv[q].pc = "ReleaseLock" /\ hist[q].wrote # {} /\ hist[q].deleted # {}
        /\ Holders("d1") = {q}

\* C23: a call of Init that has returned, with an identity or with the
\* error of any step, no longer holds the lock of its domain; an error of a
\* call that holds the lock leads to the release.
C23_LockReleased ==
    \A p \in Procs :
        /\ inv[p].pc = "idle" => \A name \in Clusters : p \notin Holders(name)
        /\ (hist[p].locked /\ inv[p].pc # "idle") =>
              /\ p \in Holders(cfgOf(p).DomainName)
              /\ inv[p].ret # NoReturn => inv[p].pc = "ReleaseLock"

C23_Witness ==
    \E p \in Procs :
        /\ Returned(p) /\ hist[p].locked
        /\ hist[p].prev # Nil /\ hist[p].prev.ret = Error("backend")
        /\ lockLog = <<<<p, 1>>, <<p, 2>>>>
        /\ inv[p].ret = Error("BadParameter") /\ ~hist[p].failed
        /\ LockFree(backend, cfgOf(p).DomainName)

\* the order of the steps as stated: the four apply loops, then the three
\* prune loops, then the ensure step
StatedRank ==
    [UpsertRoles |-> 1, UpsertAuthorities |-> 2, UpsertTunnels |-> 3, UpsertConnectors |-> 4,
     PruneCAs |-> 5, PruneTunnels |-> 5, PruneConnectors |-> 5,
     GetHostCA |-> 6, UpsertHostCA |-> 6, GetUserCA |-> 6, UpsertUserCA |-> 6]
\* the order of the steps kind by kind: apply then prune for the CAs, the
\* ensure step, apply then prune for the tunnels, then for the connectors
KindRank ==
    [UpsertRoles |-> 1, UpsertAuthorities |-> 2, PruneCAs |-> 3,
     GetHostCA |-> 4, UpsertHostCA |-> 5, GetUserCA |-> 6, UpsertUserCA |-> 7,
     UpsertTunnels |-> 8, PruneTunnels |-> 9, UpsertConnectors |-> 10, PruneConnectors |-> 11]
\* the operations of a call come in the order of their ranks
Ranked(order, rank) == SelectSeq(order, LAMBDA pc : pc \in DOMAIN rank)
InOrder(order, rank) ==
    LET ranked == Ranked(order, rank)
    IN \A j \in 1..(Len(ranked) - 1) : rank[ranked[j]] <= rank[ranked[j + 1]]

\* C24 as stated: in a call with seed mode off every apply upsert (roles,
\* CAs, tunnels, connectors) comes before every prune delete, and every
\* prune delete before the ensure step.
C24_StatedOrder ==
    \A p \in Procs :
        (hist[p].determined /\ ~inv[p].seedConfig) => InOrder(hist[p].order, StatedRank)

\* C24: in a call with seed mode off the operations come kind by kind: role
\* upserts, CA upserts, CA prune deletes, the lookup (and creation) of the
\* host CA and then of the user CA, tunnel upserts, tunnel prune deletes,
\* connector upserts, connector prune deletes; no tunnel or connector is
\* written or deleted before both CAs of the domain were looked up.
C24_StepOrder ==
    \A p \in Procs :
        (hist[p].determined /\ ~inv[p].seedConfig) =>
            LET ranked == Ranked(hist[p].order, KindRank)
            IN /\ InOrder(hist[p].order, KindRank)
               /\ (\E j \in 1..Len(ranked) : KindRank[ranked[j]] >= KindRank["UpsertTunnels"]) =>
                     \E h \in 1..Len(ranked), u \in 1..Len(ranked) :
                         ranked[h] = "GetHostCA" /\ ranked[u] = "GetUserCA"

C24_Witness ==
    \E p \in Procs :
        /\ Succeeded(p) /\ ~inv[p].seedConfig
        /\ Ranked(hist[p].order, KindRank) =
              <<"UpsertRoles", "UpsertAuthorities", "PruneCAs", "GetHostCA", "GetUserCA",
                "UpsertUserCA", "UpsertTunnels", "PruneTunnels", "UpsertConnectors",
                "PruneConnectors">>

InitKeysPcs == {"pathExists", "GenerateServerKeys", "WriteKey", "WriteCert", "ReadIdentity"}

\* C25: when Init comes to initKeys, and all through it, a host CA and a
\* user CA of the configured domain are stored; and a call writes and
\* deletes nothing before it has determined the first start.
C25_CAsBeforeIdentity ==
    \A p \in Procs :
        /\ inv[p].pc \in InitKeysPcs =>
              \A t \in CATypes :
                  /\ backend.cas[CertAuthID(cfgOf(p).DomainName, t)] # Absent
                  /\ backend.cas[CertAuthID(cfgOf(p).DomainName, t)].Type = t
                  /\ backend.cas[CertAuthID(cfgOf(p).DomainName, t)].ClusterName = cfgOf(p).DomainName
        /\ (hist[p].calls > 0 /\ ~hist[p].determined) =>
              /\ hist[p].wrote = {} /\ hist[p].deleted = {} /\ hist[p].order = << >>
              /\ p \in Holders(cfgOf(p).DomainName) => Stored(backend) = Stored(hist[p].start)

C25_Witness ==
    \E p \in Procs :
        /\ inv[p].pc = "pathExists"
        /\ hist[p].start.cas[hostCAId(p)] = Absent /\ hist[p].start.cas[userCAId(p)] = Absent
        /\ hist[p].generated = {hostCAId(p), userCAId(p)}
        /\ hist[p].deleted # {}
        /\ backend.cas[hostCAId(p)] # Absent /\ backend.cas[userCAId(p)] # Absent

\* C26: a call of Init that does not get the lock returns an error in one
\* step, with the backend (its locks included), the data directory and the
\* key generator as they were; it has written, deleted and looked up
\* nothing, and the lock of another call stays with its holder.
C26_LockFailure ==
    /\ [](\A p \in Procs :
            (Returned(p) /\ ~hist[p].locked /\ checkConfig(cfgOf(p)) = NoReturn) =>
                /\ inv[p].ret.kind = "err"
                /\ hist[p].wrote = {} /\ hist[p].deleted = {} /\ hist[p].order = << >>
                /\ ~hist[p].determined)
    /\ [][\A p \in Procs :
            (inv'[p] # inv[p] /\ hist[p].calls > 0 /\ hist'[p].calls = hist[p].calls
                /\ ~hist[p].locked /\ ~hist'[p].locked) =>
                /\ inv[p].pc = "AcquireLock" /\ inv'[p].pc = "idle"
                /\ inv'[p].ret.kind = "err"
                /\ backend' = backend /\ disk' = disk /\ keygen' = keygen]_vars

C26_Witness ==
    \E p \in Procs, q \in Procs :
        /\ Returned(p) /\ ~hist[p].locked /\ inv[p].ret = Error("lock")
        /\ q # p /\ Holders("d1") = {q} /\ hist[q].wrote # {} /\ inv[q].pc = "pathExists"

\* C27: the identity that a successful Init returns has the role of the
\* cluster administrator and the configured host UUID, whatever files the
\* data directory held before.
C27_ReturnedIdentity ==
    \A p \in Procs :
        Succeeded(p) =>
            /\ inv[p].ret.identity.ID.Role = RoleAdmin
            /\ inv[p].ret.identity.ID.HostUUID = cfgOf(p).HostUUID

\* the same for a data directory that held no identity files at first
C27_ReturnedIdentityFresh ==
    \A p \in Procs :
        (Succeeded(p) /\ hist[p].origin.disk = EmptyDisk) =>
            /\ inv[p].ret.identity.ID.Role = RoleAdmin
            /\ inv[p].ret.identity.ID.HostUUID = cfgOf(p).HostUUID

\* the loop that follows a listing, and the positions that follow the loop
LoopOf == [ListConnectors |-> "PruneConnectors", ListUsers |-> "MigrateUsers", ListCAs |-> "MigrateCAs"]
AfterLoop ==
    [PruneConnectors |-> {"SetU2F", "UpsertNamespace"}, MigrateUsers |-> {"ListCAs"},
     MigrateCAs |-> {"pathExists"}]

\* C28: the listing of the connectors, of the users and of the user CAs
\* never ends Init: when it fails, Init goes on to the loop with no item
\* and the backend as it is; a loop with no item deletes and writes nothing
\* and Init goes on to the step after it.
C28_IgnoredListFailures ==
    [][\A p \in Procs :
          /\ (inv'[p] # inv[p] /\ inv[p].pc \in DOMAIN LoopOf) =>
                /\ inv'[p].pc = LoopOf[inv[p].pc]
                /\ inv'[p].ret = NoReturn
                /\ backend' = backend
                /\ hist'[p].wrote = hist[p].wrote /\ hist'[p].deleted = hist[p].deleted
                /\ hist'[p].failed # hist[p].failed => (inv'[p].list = << >> /\ hist'[p].ignored)
          /\ (inv'[p] # inv[p] /\ inv[p].pc \in DOMAIN AfterLoop /\ inv[p].list = << >>
                /\ inv[p].ret = NoReturn) =>
                /\ inv'[p].pc \in AfterLoop[inv[p].pc]
                /\ inv'[p].ret = NoReturn
                /\ backend' = backend
                /\ hist'[p].wrote = hist[p].wrote /\ hist'[p].deleted = hist[p].deleted]_vars

\* a successful Init with seed mode off that left an unconfigured connector,
\* a legacy user and a legacy CA without its role: all three listings failed
C28_Witness ==
    \E p \in Procs :
        /\ Succeeded(p) /\ ~inv[p].seedConfig /\ hist[p].ignored
        /\ hist[p].start.connectors["c2"] # Absent /\ backend.connectors["c2"] # Absent
        /\ "c2" \notin Names(cfgOf(p).OIDCConnectors, "Name")
        /\ hist[p].start.users["u1"].version = V1 /\ backend.users["u1"] = hist[p].start.users["u1"]
        /\ backend.cas[CertAuthID("d1", UserCA)] = LegacyCA("d1", UserCA)
        /\ backend.roles[RoleNameForCertAuthority("d1")] = Absent

\* the keys that the apply loops wrote in the call of p
Applied(p, pc) == {w[2] : w \in {v \in hist[p].wrote : v[1] = pc}}

\* C29: whenever a prune phase runs, seed mode is off, the apply was not
\* skipped, the apply phase of that kind has upserted every configured item
\* and the keep map holds the keys of the whole configured list; Init never
\* deletes a CA, tunnel or connector that the configuration names.
C29_PruneImpliesApply ==
    \A p \in Procs :
        /\ inv[p].pc \in {"ListHostCAs", "ListUserCAs", "PruneCAs"} =>
              /\ ~inv[p].seedConfig /\ ~skipConfig(p)
              /\ inv[p].keepMap = Names(cfgOf(p).Authorities, "ClusterName")
              /\ Applied(p, "UpsertAuthorities") =
                    {<<"ca", GetID(cfgOf(p).Authorities[j])>> : j \in 1..Len(cfgOf(p).Authorities)}
        /\ inv[p].pc \in {"ListTunnels", "PruneTunnels"} =>
              /\ ~inv[p].seedConfig /\ ~skipConfig(p)
              /\ inv[p].keepMap = Names(cfgOf(p).ReverseTunnels, "ClusterName")
              /\ Applied(p, "UpsertTunnels") = {<<"tunnel", n>> : n \in inv[p].keepMap}
        /\ inv[p].pc \in {"ListConnectors", "PruneConnectors"} =>
              /\ ~inv[p].seedConfig /\ ~skipConfig(p)
              /\ inv[p].keepMap = Names(cfgOf(p).OIDCConnectors, "Name")
              /\ Applied(p, "UpsertConnectors") = {<<"connector", n>> : n \in inv[p].keepMap}
        /\ \A d \in hist[p].deleted :
              /\ d[2][1] = "ca" => d[2][2][1] \notin Names(cfgOf(p).Authorities, "ClusterName")
              /\ d[2][1] = "tunnel" => d[2][2] \notin Names(cfgOf(p).ReverseTunnels, "ClusterName")
              /\ d[2][1] = "connector" => d[2][2] \notin Names(cfgOf(p).OIDCConnectors, "Name")

C29_Witness ==
    \E p \in Procs :
        /\ Succeeded(p) /\ ~inv[p].seedConfig /\ ~inv[p].firstStart
        /\ hist[p].start.connectors["c1"] # Absent /\ backend.connectors["c1"] # Absent
        /\ hist[p].start.tunnels["A"] # Absent /\ backend.tunnels["A"] # Absent
        /\ hist[p].start.cas[CertAuthID("d2", HostCA)] # Absent
        /\ backend.cas[CertAuthID("d2", HostCA)] # Absent
        /\ "d2" \in Names(cfgOf(p).Authorities, "ClusterName")
        /\ hist[p].deleted = {}

\* C30: when the CA prune of a call with seed mode off is over, a CA of
\* either type that was stored or applied has been deleted iff its cluster
\* is not the configured domain and no configured authority, of whatever
\* type, is of that cluster; the keep maps of the tunnel and connector
\* phases start empty and hold tunnel names, respectively connector names,
\* only.
C30_KeepSetByClusterName ==
    \A p \in Procs :
        /\ (inv[p].pc = "GetHostCA" /\ ~inv[p].seedConfig) =>
              \A id \in CAIds :
                  LET stored == hist[p].start.cas[id] # Absent
                                   \/ <<"ca", id>> \in Applied(p, "UpsertAuthorities")
                      deleted == <<"PruneCAs", <<"ca", id>>>> \in hist[p].deleted
                      kept == id[1] = cfgOf(p).DomainName
                                 \/ id[1] \in Names(cfgOf(p).Authorities, "ClusterName")
                  IN /\ deleted <=> (stored /\ ~kept)
                     /\ (backend.cas[id] # Absent) <=> (stored /\ kept)
        /\ inv[p].pc \in {"UpsertTunnels", "ListTunnels", "PruneTunnels"} =>
              /\ inv[p].keepMap \subseteq TunnelNames
              /\ (inv[p].pc = "UpsertTunnels" /\ inv[p].i = 1) => inv[p].keepMap = {}
        /\ inv[p].pc \in {"UpsertConnectors", "ListConnectors", "PruneConnectors"} =>
              /\ inv[p].keepMap \subseteq ConnectorNames
              /\ (inv[p].pc = "UpsertConnectors" /\ inv[p].i = 1) => inv[p].keepMap = {}

C30_Witness ==
    \E p \in Procs :
        /\ inv[p].pc = "UpsertConnectors" /\ inv[p].i = 1 /\ ~inv[p].seedConfig
        /\ hist[p].start.cas[CertAuthID("d2", UserCA)] # Absent
        /\ hist[p].start.cas[CertAuthID("d2", HostCA)] = Absent
        /\ cfgOf(p).Authorities = <<CertAuthority("d2", HostCA, CfgKey, V2)>>
        /\ backend.cas[CertAuthID("d2", UserCA)] = hist[p].start.cas[CertAuthID("d2", UserCA)]
        /\ <<"PruneTunnels", <<"tunnel", "B">>>> \in hist[p].deleted
        /\ \A d \in hist[p].deleted : d[1] # "PruneCAs"

\* C31: roles and users are never pruned. No step of Init removes a stored
\* role or a stored user, with or without seed_config and whether or not the
\* role is configured, so the role names and the user names stored after a
\* call include those stored before it; nothing Init deletes is a role or a
\* user.
C31_RolesUsersNeverPruned ==
    /\ [](\A p \in Procs : \A d \in hist[p].deleted : d[2][1] \notin {"role", "user"})
    /\ [][/\ StoredNames(backend.roles) \subseteq StoredNames(backend'.roles)
          /\ StoredNames(backend.users) \subseteq StoredNames(backend'.users)]_vars

\* a call without a roles section that pruned CAs, tunnels and connectors
\* has returned, and the role found in the backend is still there
C31_Witness ==
    \E p \in Procs :
        /\ Succeeded(p) /\ hist[p].calls = 1
        /\ cfgOf(p).Roles = << >> /\ ~inv[p].seedConfig
        /\ {d[1] : d \in hist[p].deleted} = {"PruneCAs", "PruneTunnels", "PruneConnectors"}
        /\ hist[p].start.roles["r"] # Absent
        /\ backend.roles["r"] = hist[p].start.roles["r"]
        /\ StoredNames(hist[p].start.roles) \subseteq StoredNames(backend.roles)
        /\ StoredNames(hist[p].start.roles) # StoredNames(backend.roles)
        /\ StoredNames(hist[p].start.users) = {"u1"}
        /\ StoredNames(backend.users) = {"u1"}

\* the call of q is between its lock acquisition and its return
InCall(q) == hist[q].locked /\ inv[q].pc # "idle"
\* the CAs of its own domain that the call of p created
Created(p) ==
    {id \in {hostCAId(p), userCAId(p)} :
        <<(IF id[2] = HostCA THEN "UpsertHostCA" ELSE "UpsertUserCA"), <<"ca", id>>>> \in hist[p].wrote}
\* the step is one of p that writes to the backend while the call of q runs
WritesInto(p, q) == InCall(q) /\ inv'[p] # inv[p] /\ Stored(backend') # Stored(backend)
\* the prune of q deleted a CA that p created for its own domain
PrunedFrom(p, q) == \E id \in Created(p) : <<"PruneCAs", <<"ca", id>>>> \in hist[q].deleted

\* the serialisation as stated, for any two calls on one backend, whatever
\* their domains: no call writes to the backend while the other is between
\* its lock acquisition and its return, and no call prunes a CA that the
\* other created for its own domain
C32_SerializedAnyDomain ==
    /\ [](\A p \in Procs, q \in Procs :
            (p # q /\ hist[p].calls > 0 /\ hist[q].calls > 0) => ~PrunedFrom(p, q))
    /\ [][\A p \in Procs, q \in Procs :
            (p # q /\ hist[p].calls > 0 /\ hist[q].calls > 0) => ~WritesInto(p, q)]_vars

\* C32: two Init calls on one backend that are configured with the same
\* cluster domain name are serialised: neither writes to the backend while
\* the other is between its lock acquisition and its return, and neither
\* prunes a CA that the other created for the domain.
C32_SerializedSameDomain ==
    /\ [](\A p \in Procs, q \in Procs :
            (p # q /\ hist[p].calls > 0 /\ hist[q].calls > 0
                /\ cfgOf(p).DomainName = cfgOf(q).DomainName) => ~PrunedFrom(p, q))
    /\ [][\A p \in Procs, q \in Procs :
            (p # q /\ hist[p].calls > 0 /\ hist[q].calls > 0
                /\ cfgOf(p).DomainName = cfgOf(q).DomainName) => ~WritesInto(p, q)]_vars

\* two calls for one domain have returned: the first created both CAs, the
\* second ran its prune phases over them and wrote, and the CAs are as the
\* first call left them
C32_Witness ==
    \E p \in Procs, q \in Procs :
        /\ lockLog = <<<<p, 1>>, <<q, 1>>>>
        /\ cfgOf(p).DomainName = cfgOf(q).DomainName
        /\ Succeeded(p) /\ Succeeded(q)
        /\ Created(p) = {hostCAId(p), userCAId(p)}
        /\ ~inv[q].seedConfig /\ hist[q].wrote # {}
        /\ \A id \in Created(p) :
              /\ hist[q].start.cas[id] # Absent
              /\ backend.cas[id] = hist[q].start.cas[id]
              /\ backend.cas[id].keys.src = "gen"

\* C33: when every call returns and every running Init gets its turn, every
\* Init call returns, with an identity or an error; a call that waits for
\* the lock of the domain gets it or fails with the lock error; and when all
\* calls have returned no lock is held.
C33_Termination ==
    /\ \A p \in Procs : (inv[p].pc # "idle") ~> (inv[p].pc = "idle" /\ inv[p].ret # NoReturn)
    /\ \A p \in Procs : (inv[p].pc = "AcquireLock") ~>
                            (hist[p].locked \/ inv[p].ret = Error("lock"))
    /\ []((\A p \in Procs : inv[p].pc = "idle") => backend.locks = {})

\* both replicas have returned, one with an identity after waiting for the
\* other, which failed while it held the lock; the lock is free
C33_Witness ==
    \E p \in Procs, q \in Procs :
        /\ lockLog = <<<<p, 1>>, <<q, 1>>>>
        /\ Returned(p) /\ inv[p].ret = Error("backend") /\ hist[p].wrote # {}
        /\ Succeeded(q)
        /\ backend.locks = {}
====
